---- MODULE Spec2Model ----
(***************************************************************************)
(* A model of omado (src/src/main.rs): the task list of TodoApp, its       *)
(* line-oriented task file, and the commands of the interactive view.      *)
(*                                                                         *)
(* A Rust String is a sequence of one-character strings, Option<T> is a    *)
(* sequence of length 0 (None) or 1 (Some), usize indices are 0-based as   *)
(* in the source.                                                          *)
(***************************************************************************)
EXTENDS Integers, Sequences, FiniteSets, TLC

\* ------------------------------------------------------------ bounds
\* Longest input string given to parse_todo_text in SpecParse.
MaxParseLen == 4
\* Longest task collection given to filtered_todos in SpecFilter.
MaxFilterTodos == 3
\* Longest text and longest project name of the task that SpecRoundTrip
\* saves and loads.
MaxRTText == 3
MaxRTProject == 2
\* Longest task collection of the interactive session: add-new is not
\* issued beyond it.
MaxTodos == 2
\* Farthest the user moves the font size from the default.
MaxFontSteps == 1
MaxCycleTodos == 3
MaxCycleSteps == 6
MaxLoadLines == 2
MaxCliText == 3
MaxThemeImports == 2
\* longest project name handed to get_project_color, in characters
MaxNameLen == 4
\* most key events delivered in one input frame
MaxFrameKeys == 2
\* most lines of a task file whose tasks are opened for editing
MaxEditLines == 2
\* most runs of the command-line add form beside one interactive instance
MaxCliAdds == 2

\* ------------------------------------------------------------ program constants
DefaultFontSize == 14
MaxFontSize == 24
MinFontSize == 8

\* ------------------------------------------------------------ Option<T>
None == <<>>
Some(v) == <<v>>
IsSome(o) == o # <<>>
Unwrap(o) == o[1]

\* ------------------------------------------------------------ strings
\* char::is_whitespace, restricted to the characters the model uses.
IsWhitespace(c) == c \in {" ", "\t", "\r", "\n"}

\* All strings over alphabet A of length at most n.
Strings(A, n) == UNION {[1..k -> A] : k \in 0..n}

RECURSIVE trim_start(_)
\* str::trim_start
trim_start(s) ==
    IF s = <<>> THEN <<>>
    ELSE IF IsWhitespace(Head(s)) THEN trim_start(Tail(s))
    ELSE s

RECURSIVE trim_end(_)
\* str::trim_end
trim_end(s) ==
    IF s = <<>> THEN <<>>
    ELSE IF IsWhitespace(s[Len(s)]) THEN trim_end(SubSeq(s, 1, Len(s) - 1))
    ELSE s

\* str::trim
trim(s) == trim_end(trim_start(s))

\* str::find(char): the 1-based position of the first c in s, 0 when absent.
find(s, c) ==
    IF \E i \in 1..Len(s) : s[i] = c
    THEN CHOOSE i \in 1..Len(s) : s[i] = c /\ \A j \in 1..(i - 1) : s[j] # c
    ELSE 0

\* str::starts_with
starts_with(s, p) == Len(s) >= Len(p) /\ SubSeq(s, 1, Len(p)) = p

\* &s[n..] for a 0-based byte offset n
SliceFrom(s, n) == SubSeq(s, n + 1, Len(s))

\* str::contains(&str)
contains(hay, needle) ==
    \E i \in 0..(Len(hay) - Len(needle)) :
        SubSeq(hay, i + 1, i + Len(needle)) = needle

\* char lowercase mapping, for the letters the model uses.
LowerChar(c) ==
    CASE c = "A" -> "a" [] c = "B" -> "b" [] c = "N" -> "n" [] c = "P" -> "p"
      [] c = "Q" -> "q" [] OTHER -> c

\* str::to_lowercase
to_lowercase(s) == [i \in 1..Len(s) |-> LowerChar(s[i])]

RECURSIVE lines(_)
\* str::lines: split at "\n", a final line needs no terminator, and a "\r"
\* directly before the "\n" is removed with it.
lines(s) ==
    IF s = <<>> THEN <<>>
    ELSE LET p == find(s, "\n") IN
         IF p = 0 THEN <<s>>
         ELSE LET l == SubSeq(s, 1, p - 1)
                  line == IF l # <<>> /\ l[Len(l)] = "\r"
                          THEN SubSeq(l, 1, Len(l) - 1) ELSE l
              IN <<line>> \o lines(SubSeq(s, p + 1, Len(s)))

\* ------------------------------------------------------------ task file format
\* The markers of load_todos and save_todos.
PendingPrefix == <<"[", " ", "]">>
DonePrefix == <<"[", "x", "]">>

\* struct Todo
Todo(text, done, project) == [text |-> text, done |-> done, project |-> project]

\* mutant: a blank task part is accepted
parse_todo_text_blank_task(text) ==
    LET colon_pos == find(text, ":") IN
    IF colon_pos # 0
    THEN LET project_part == trim(SubSeq(text, 1, colon_pos - 1))
             task_part == trim(SubSeq(text, colon_pos + 1, Len(text)))
         IN IF project_part # <<>>
            THEN <<task_part, Some(project_part)>>
            ELSE <<text, None>>
    ELSE <<text, None>>

\* TodoApp::parse_todo_text: returns <<text, project>>.
parse_todo_text(text) ==
    LET colon_pos == find(text, ":") IN
    IF colon_pos # 0
    THEN LET project_part == trim(SubSeq(text, 1, colon_pos - 1))
             task_part == trim(SubSeq(text, colon_pos + 1, Len(text)))
         IN IF project_part # <<>> /\ task_part # <<>>
            THEN <<task_part, Some(project_part)>>
            ELSE <<text, None>>
    ELSE <<text, None>>

\* mutant: the rest of the line is taken from the marker's end
load_line_off_by_one(raw) ==
    LET line == trim(raw) IN
    IF starts_with(line, PendingPrefix \o <<" ">>)
    THEN LET r == parse_todo_text(SliceFrom(line, 3))
         IN <<Todo(r[1], FALSE, r[2])>>
    ELSE IF starts_with(line, DonePrefix \o <<" ">>)
    THEN LET r == parse_todo_text(SliceFrom(line, 3))
         IN <<Todo(r[1], TRUE, r[2])>>
    ELSE <<>>

\* mutant: every recognised line gives a pending task
load_line_all_pending(raw) ==
    LET line == trim(raw) IN
    IF starts_with(line, PendingPrefix \o <<" ">>)
           \/ starts_with(line, DonePrefix \o <<" ">>)
    THEN LET r == parse_todo_text(SliceFrom(line, 4))
         IN <<Todo(r[1], FALSE, r[2])>>
    ELSE <<>>

\* One line of the loop of load_todos: the tasks (none or one) the line gives.
load_line(raw) ==
    LET line == trim(raw) IN
    IF starts_with(line, PendingPrefix \o <<" ">>)
    THEN LET r == parse_todo_text(SliceFrom(line, 4))
         IN <<Todo(r[1], FALSE, r[2])>>
    ELSE IF starts_with(line, DonePrefix \o <<" ">>)
    THEN LET r == parse_todo_text(SliceFrom(line, 4))
         IN <<Todo(r[1], TRUE, r[2])>>
    ELSE <<>>

RECURSIVE load_lines(_)
load_lines(ls) ==
    IF ls = <<>> THEN <<>> ELSE load_line(Head(ls)) \o load_lines(Tail(ls))

\* TodoApp::load_todos: the collection after loading, given the collection
\* before and the file (None when fs::read_to_string fails).
load_todos(old, f) ==
    IF IsSome(f) THEN load_lines(lines(Unwrap(f))) ELSE old

\* mutant: the project is left out of the text
display_text_without_project(todo) == todo.text

\* format!("{}: {}", project, text), or the text alone
display_text(todo) ==
    IF IsSome(todo.project)
    THEN Unwrap(todo.project) \o <<":", " ">> \o todo.text
    ELSE todo.text

\* mutant: the project is left out of the line
save_line_without_project(todo) ==
    (IF todo.done THEN DonePrefix ELSE PendingPrefix)
        \o <<" ">> \o todo.text \o <<"\n">>

\* One line of save_todos.
save_line(todo) ==
    (IF todo.done THEN DonePrefix ELSE PendingPrefix)
        \o <<" ">> \o display_text(todo) \o <<"\n">>

RECURSIVE save_content(_)
\* The content save_todos builds.
save_content(ts) ==
    IF ts = <<>> THEN <<>> ELSE save_line(Head(ts)) \o save_content(Tail(ts))

\* TodoApp::save_todos: the file after a successful fs::write.
save_todos(ts) == Some(save_content(ts))

\* enum ProjectFilter
PF_All == [kind |-> "All", name |-> <<>>]
PF_NoProject == [kind |-> "NoProject", name |-> <<>>]
PF_Project(p) == [kind |-> "Project", name |-> p]

\* mutant: the search text is compared as typed
matches_search_as_typed(todo, f, pf, srch) ==
    LET matches_filter ==
            CASE f = "All" -> TRUE
              [] f = "Active" -> ~todo.done
              [] f = "Done" -> todo.done
        matches_project ==
            CASE pf.kind = "All" -> TRUE
              [] pf.kind = "NoProject" -> todo.project = None
              [] pf.kind = "Project" -> todo.project = Some(pf.name)
        matches_search ==
            IF srch = <<>> THEN TRUE
            ELSE \/ contains(to_lowercase(todo.text), srch)
                 \/ /\ IsSome(todo.project)
                    /\ contains(to_lowercase(Unwrap(todo.project)), srch)
    IN matches_filter /\ matches_project /\ matches_search

\* The closure of filtered_todos: does the task pass the three filters.
matches(todo, f, pf, srch) ==
    LET matches_filter ==
            CASE f = "All" -> TRUE
              [] f = "Active" -> ~todo.done
              [] f = "Done" -> todo.done
        matches_project ==
            CASE pf.kind = "All" -> TRUE
              [] pf.kind = "NoProject" -> todo.project = None
              [] pf.kind = "Project" -> todo.project = Some(pf.name)
        matches_search ==
            IF srch = <<>> THEN TRUE
            ELSE LET search_lower == to_lowercase(srch) IN
                 \/ contains(to_lowercase(todo.text), search_lower)
                 \/ /\ IsSome(todo.project)
                    /\ contains(to_lowercase(Unwrap(todo.project)), search_lower)
    IN matches_filter /\ matches_project /\ matches_search

\* TodoApp::filtered_todos: the sequence of <<real index, task>> pairs.
filtered_todos(ts, f, pf, srch) ==
    LET enumerate == [i \in 1..Len(ts) |-> <<i - 1, ts[i]>>]
        keep(pair) == matches(pair[2], f, pf, srch)
    IN SelectSeq(enumerate, keep)

\* byte value of a character, for String's Ord
Byte(c) ==
    CASE c = "\t" -> 9 [] c = "\n" -> 10 [] c = "\r" -> 13 [] c = " " -> 32
      [] c = ":" -> 58 [] c = "A" -> 65 [] c = "P" -> 80 [] c = "[" -> 91
      [] c = "]" -> 93 [] c = "a" -> 97 [] c = "b" -> 98 [] c = "p" -> 112
      [] c = "q" -> 113 [] c = "x" -> 120

RECURSIVE StrLess(_, _)
\* String's Ord: lexicographic on bytes, a < b
StrLess(a, b) ==
    IF b = <<>> THEN FALSE
    ELSE IF a = <<>> THEN TRUE
    ELSE IF Head(a) = Head(b) THEN StrLess(Tail(a), Tail(b))
    ELSE Byte(Head(a)) < Byte(Head(b))

RECURSIVE SortedSeq(_)
\* the elements of a set of strings in ascending order (Vec::sort)
SortedSeq(S) ==
    IF S = {} THEN <<>>
    ELSE LET m == CHOOSE x \in S : \A y \in S \ {x} : StrLess(x, y)
         IN <<m>> \o SortedSeq(S \ {m})

\* TodoApp::get_all_projects
get_all_projects(ts) ==
    SortedSeq({Unwrap(ts[i].project) : i \in {j \in 1..Len(ts) : IsSome(ts[j].project)}})

\* ------------------------------------------------------------ theme
\* egui::Color32::from_rgb(r, g, b)
from_rgb(r, g, b) == <<r, g, b>>

\* impl Default for Theme
Theme_default ==
    [background |-> from_rgb(26, 27, 38),
     foreground |-> from_rgb(205, 214, 244),
     accent |-> from_rgb(116, 199, 236),
     border |-> from_rgb(88, 91, 112),
     done_color |-> from_rgb(166, 173, 200),
     red |-> Some(from_rgb(243, 139, 168)),
     green |-> Some(from_rgb(166, 227, 161)),
     yellow |-> Some(from_rgb(249, 226, 175)),
     blue |-> Some(from_rgb(137, 180, 250)),
     magenta |-> Some(from_rgb(203, 166, 247)),
     cyan |-> Some(from_rgb(148, 226, 213)),
     white |-> Some(from_rgb(205, 214, 244)),
     font_family |-> None,
     font_size |-> None]

\* The character U+00E9 stands for the characters outside ASCII: its UTF-8
\* encoding has the two bytes C3 A9. Every other character of the model is
\* one byte, written as the character itself.
NonAscii == "U+00E9"

RECURSIVE as_bytes(_)
\* the bytes of a &str
as_bytes(str) ==
    IF str = <<>> THEN <<>>
    ELSE (IF Head(str) = NonAscii THEN <<"C3", "A9">> ELSE <<Head(str)>>)
             \o as_bytes(Tail(str))

\* str::is_char_boundary for a byte offset i of the bytes bs
is_char_boundary(bs, i) ==
    i = 0 \/ i = Len(bs) \/ (i < Len(bs) /\ bs[i + 1] # "A9")

RECURSIVE trim_start_matches(_, _)
\* str::trim_start_matches(char): every leading c is removed
trim_start_matches(str, c) ==
    IF str # <<>> /\ Head(str) = c THEN trim_start_matches(Tail(str), c) ELSE str

HexDigits ==
    {"0", "1", "2", "3", "4", "5", "6", "7", "8", "9",
     "a", "b", "c", "d", "e", "f", "A", "B", "C", "D", "E", "F"}

\* char::to_digit(16) of a hexadecimal digit
to_digit(c) ==
    CASE c = "0" -> 0 [] c = "1" -> 1 [] c = "2" -> 2 [] c = "3" -> 3
      [] c = "4" -> 4 [] c = "5" -> 5 [] c = "6" -> 6 [] c = "7" -> 7
      [] c = "8" -> 8 [] c = "9" -> 9
      [] c \in {"a", "A"} -> 10 [] c \in {"b", "B"} -> 11
      [] c \in {"c", "C"} -> 12 [] c \in {"d", "D"} -> 13
      [] c \in {"e", "E"} -> 14 [] c \in {"f", "F"} -> 15

RECURSIVE radix_value(_, _)
radix_value(digits, acc) ==
    IF digits = <<>> THEN acc
    ELSE radix_value(Tail(digits), acc * 16 + to_digit(Head(digits)))

\* u8::from_str_radix(src, 16): Some(value), or None for the Err. A leading
\* "+" is accepted when digits follow; "-" is no digit of an unsigned type.
from_str_radix(src) ==
    IF src = <<>> THEN None
    ELSE IF Len(src) = 1 /\ src[1] \in {"+", "-"} THEN None
    ELSE LET digits == IF src[1] = "+" THEN Tail(src) ELSE src IN
         IF \E i \in 1..Len(digits) : digits[i] \notin HexDigits THEN None
         ELSE IF radix_value(digits, 0) > 255 THEN None
         ELSE Some(radix_value(digits, 0))

ColorOk(c) == [kind |-> "Ok", color |-> c]
ColorErr == [kind |-> "Err", color |-> <<>>]
\* &hex[a..b] at a byte offset inside a character: the thread panics
ColorPanic == [kind |-> "Panic", color |-> <<>>]

\* TodoApp::parse_hex_color
parse_hex_color(hex) ==
    LET h == as_bytes(trim_start_matches(hex, "#")) IN
    IF Len(h) # 6 THEN ColorErr
    ELSE IF ~is_char_boundary(h, 2) THEN ColorPanic
    ELSE LET r == from_str_radix(SubSeq(h, 1, 2)) IN
    IF r = None THEN ColorErr
    ELSE IF ~is_char_boundary(h, 4) THEN ColorPanic
    ELSE LET g == from_str_radix(SubSeq(h, 3, 4)) IN
    IF g = None THEN ColorErr
    ELSE LET b == from_str_radix(SubSeq(h, 5, 6)) IN
    IF b = None THEN ColorErr
    ELSE ColorOk(from_rgb(r[1], g[1], b[1]))

\* The settings of one config file, the absent ones None: colors.primary
\* (background, foreground), colors.normal (black .. white), font.size and
\* font.normal.family.
Settings(bg, fg, black, red, green, yellow, blue, magenta, cyan, white, size, family) ==
    [background |-> bg, foreground |-> fg, black |-> black, red |-> red,
     green |-> green, yellow |-> yellow, blue |-> blue, magenta |-> magenta,
     cyan |-> cyan, white |-> white, size |-> size, family |-> family]

\* a theme being written by load_theme_from_file, or the panic that ended it
Applied(th) == [panic |-> FALSE, theme |-> th]
Panicked(th) == [panic |-> TRUE, theme |-> th]

\* if let Some(s) = entry { if let Ok(color) = parse_hex_color(&s) { .. } }:
\* a valid colour is written to the fields plain and, as Some(color), to the
\* fields optional
with_color(t, entry, plain, optional) ==
    IF t.panic \/ entry = None THEN t
    ELSE LET r == parse_hex_color(entry[1]) IN
         IF r.kind = "Panic" THEN Panicked(t.theme)
         ELSE IF r.kind = "Ok"
         THEN Applied([f \in DOMAIN t.theme |->
                          IF f \in plain THEN r.color
                          ELSE IF f \in optional THEN Some(r.color)
                          ELSE t.theme[f]])
         ELSE t

\* the colours and the font settings of one file, written over the theme
apply_settings(th, st) ==
    LET t0 == Applied(th)
        t1 == with_color(t0, st.background, {"background"}, {})
        t2 == with_color(t1, st.foreground, {"foreground"}, {})
        t3 == with_color(t2, st.blue, {"accent"}, {"blue"})
        t4 == with_color(t3, st.white, {"border"}, {"white"})
        t5 == IF st.cyan # None
              THEN with_color(t4, st.cyan, {"done_color"}, {"cyan"})
              ELSE with_color(t4, st.black, {"done_color"}, {})
        t6 == with_color(t5, st.red, {}, {"red"})
        t7 == with_color(t6, st.green, {}, {"green"})
        t8 == with_color(t7, st.yellow, {}, {"yellow"})
        t9 == with_color(t8, st.magenta, {}, {"magenta"})
    IN IF t9.panic THEN t9
       ELSE Applied([t9.theme EXCEPT
                !.font_size = IF st.size # None THEN st.size ELSE @,
                !.font_family = IF st.family # None THEN st.family ELSE @])

\* A config file on disk: absent, unreadable, readable but rejected by
\* toml::from_str::<AlacrittyConfig> (malformed), or a config with its
\* general.import list and its settings.
ConfigFile(kind, import, settings) ==
    [kind |-> kind, import |-> import, settings |-> settings]

\* Path::exists
exists(content) == content.kind # "absent"

\* fs::read_to_string(config_path).is_ok()
readable(content) == content.kind \in {"malformed", "config"}

\* mutant: a file that fails to parse is used as far as it can be read
from_str_partial(content) ==
    IF content.kind \in {"malformed", "config"} THEN Some(content) ELSE None

\* toml::from_str::<AlacrittyConfig>(&content) of a readable file
from_str(content) ==
    IF content.kind = "config" THEN Some(content) ELSE None

RECURSIVE Reverse(_)
Reverse(q) == IF q = <<>> THEN <<>> ELSE Reverse(Tail(q)) \o <<Head(q)>>

\* mutant: the imports are walked from the last to the first
imports_of_reversed(config) == Reverse(config.import)

\* config.general.import, empty when the section or the key is absent
imports_of(config) == config.import

\* ------------------------------------------------------------ state
VARIABLES
    \* struct TodoApp
    todos, selected, filter, project_filter, search, editing, edit_text,
    delete_mode, show_project_palette, project_palette_search,
    project_palette_selected, show_search, user_font_size, theme,
    \* the task file at storage_path: None when it cannot be read
    file,
    \* history: the command handled last, whether it called save_todos,
    \* and whether save_todos was called since TodoApp::new
    lastCmd, wrote, saved,
    \* argument and result of the pure function a function-level
    \* specification applies
    arg, ret,
    \* theme resolution: the config files on disk by path, TodoApp's
    \* config_path, and the call of load_theme in progress (its status and
    \* the stack of load_theme_from_file frames)
    config_files, config_path, theme_call

appVars == <<todos, selected, filter, project_filter, search, editing, edit_text,
             delete_mode, show_project_palette, project_palette_search,
             project_palette_selected, show_search, user_font_size, theme>>
histVars == <<lastCmd, wrote, saved>>
callVars == <<arg, ret>>
themeEnv == <<config_files, config_path, theme_call>>
vars == <<appVars, file, histVars, callVars, themeEnv>>

\* ------------------------------------------------------------ inputs
\* task files found at start-up: unreadable, and edited by hand (indented
\* marker, CRLF, blank and foreign lines, two spaces after the marker, no
\* final newline)
FileByHand ==
    <<" ", "[", " ", "]", " ", "q", ":", "a", "\r", "\n",
      "\n",
      "x", "x", "\n",
      "[", "x", "]", " ", " ", "a">>
InitialFiles == {None, Some(FileByHand)}

\* what the user leaves in the edit field before Enter or Escape
EditInputs == {<<"q", ":", " ", "a">>, <<" ">>}
\* what the user leaves in the search field
SearchInputs == {<<>>, <<"Q">>}
\* what the user leaves in the search field of the project palette
PaletteInputs == {<<>>, <<"P">>}

\* ------------------------------------------------------------ no config file
\* the paths of the config files: the conventional location and two more
RootPath == "alacritty.toml"
ThemePaths == {RootPath, "a.toml", "b.toml"}

NoSettings ==
    Settings(None, None, None, None, None, None, None, None, None, None, None, None)
AbsentFile == ConfigFile("absent", <<>>, NoSettings)

\* TodoApp::get_alacritty_config_path: the conventional path if it exists
get_alacritty_config_path(files) ==
    IF exists(files[RootPath]) THEN Some(RootPath) ELSE None

\* no load_theme in progress
IdleCall == [status |-> "idle", stack |-> <<>>]

\* there is no config file, so that load_theme of TodoApp::new leaves the
\* built-in theme
NoConfigFile ==
    /\ config_files = [p \in ThemePaths |-> AbsentFile]
    /\ config_path = None
    /\ theme_call = [status |-> "done", stack |-> <<>>]

\* ------------------------------------------------------------ TodoApp::new
InitApp(f) ==
    /\ file = f
    /\ todos = load_todos(<<>>, f)
    /\ selected = 0
    /\ filter = "All"
    /\ project_filter = PF_All
    /\ search = <<>>
    /\ editing = None
    /\ edit_text = <<>>
    /\ delete_mode = FALSE
    /\ show_project_palette = FALSE
    /\ project_palette_search = <<>>
    /\ project_palette_selected = 0
    /\ show_search = FALSE
    /\ user_font_size = None
    /\ theme = Theme_default
    /\ lastCmd = "new"
    /\ wrote = FALSE
    /\ saved = FALSE

Init ==
    /\ \E f \in InitialFiles : InitApp(f)
    /\ arg = None
    /\ ret = None
    /\ NoConfigFile

\* ------------------------------------------------------------ helpers of the commands
Filtered == filtered_todos(todos, filter, project_filter, search)

Min(a, b) == IF a < b THEN a ELSE b
Max(a, b) == IF a > b THEN a ELSE b

\* Vec::remove(idx) for a 0-based idx
remove(ts, idx) == SubSeq(ts, 1, idx) \o SubSeq(ts, idx + 2, Len(ts))

\* mutant: the filtered position taken for the real index
real_index_is_position(filtered, sel) == sel

\* filtered.get(selected): the real index paired with a filtered position
real_index(filtered, sel) == filtered[sel + 1][1]

\* handle_keyboard: a key other than Escape reaches the command table
\* (neither the palette nor the search bar is open, nothing is edited).
MainKey == ~show_project_palette /\ ~show_search /\ editing = None

\* what every command records
Handled(cmd, w) ==
    /\ lastCmd' = cmd
    /\ wrote' = w
    /\ saved' = (saved \/ w)
    /\ UNCHANGED <<callVars, themeEnv>>

\* ------------------------------------------------------------ handle_key_action
\* mutant: the buffer is tested without trimming
has_text_untrimmed(buffer) == buffer # <<>>

\* mutant: every buffer is committed
has_text_any_buffer(buffer) == TRUE

\* SaveEdit: is the buffer committed
has_text(buffer) == trim(buffer) # <<>>

\* mutant: an overwritten task is written as a new, pending one
commit_edit_resets_done(ts, idx, text, project) ==
    IF idx < Len(ts)
    THEN [ts EXCEPT ![idx + 1] = Todo(text, FALSE, project)]
    ELSE Append(ts, Todo(text, FALSE, project))

\* SaveEdit: the collection after a commit of <<text, project>> at idx
commit_edit(ts, idx, text, project) ==
    IF idx < Len(ts)
    THEN [ts EXCEPT ![idx + 1].text = text, ![idx + 1].project = project]
    ELSE Append(ts, Todo(text, FALSE, project))

SaveEdit ==
    /\ ~show_project_palette /\ ~show_search /\ IsSome(editing)
    /\ LET idx == Unwrap(editing)
           commit == has_text(edit_text)
           r == parse_todo_text(trim(edit_text))
       IN /\ todos' = IF commit THEN commit_edit(todos, idx, r[1], r[2]) ELSE todos
          /\ file' = IF commit THEN save_todos(todos') ELSE file
          /\ Handled("SaveEdit", commit)
    /\ editing' = None
    /\ edit_text' = <<>>
    /\ UNCHANGED <<selected, filter, project_filter, search, delete_mode,
                   show_project_palette, project_palette_search,
                   project_palette_selected, show_search, user_font_size, theme>>

CancelEdit ==
    /\ ~show_project_palette /\ IsSome(editing)
    /\ editing' = None
    /\ edit_text' = <<>>
    /\ Handled("CancelEdit", FALSE)
    /\ UNCHANGED <<todos, selected, filter, project_filter, search, delete_mode,
                   show_project_palette, project_palette_search,
                   project_palette_selected, show_search, user_font_size, theme,
                   file>>

\* mutant: the selection moves down without a stop at the last position
selected_after_move_down_unclamped(sel, filtered_len) ==
    IF filtered_len # 0 THEN sel + 1 ELSE sel

\* (self.selected + 1).min(filtered.len() - 1), when filtered is not empty
selected_after_move_down(sel, filtered_len) ==
    IF filtered_len # 0 THEN Min(sel + 1, filtered_len - 1) ELSE sel

MoveDown ==
    /\ MainKey
    /\ selected' = selected_after_move_down(selected, Len(Filtered))
    /\ Handled("MoveDown", FALSE)
    /\ UNCHANGED <<todos, filter, project_filter, search, editing, edit_text,
                   delete_mode, show_project_palette, project_palette_search,
                   project_palette_selected, show_search, user_font_size, theme,
                   file>>

MoveUp ==
    /\ MainKey
    /\ selected' = IF selected > 0 THEN selected - 1 ELSE selected
    /\ Handled("MoveUp", FALSE)
    /\ UNCHANGED <<todos, filter, project_filter, search, editing, edit_text,
                   delete_mode, show_project_palette, project_palette_search,
                   project_palette_selected, show_search, user_font_size, theme,
                   file>>

GoToBottom ==
    /\ MainKey
    /\ selected' = IF Filtered # <<>> THEN Len(Filtered) - 1 ELSE selected
    /\ Handled("GoToBottom", FALSE)
    /\ UNCHANGED <<todos, filter, project_filter, search, editing, edit_text,
                   delete_mode, show_project_palette, project_palette_search,
                   project_palette_selected, show_search, user_font_size, theme,
                   file>>

GoToTop ==
    /\ MainKey
    /\ selected' = 0
    /\ Handled("GoToTop", FALSE)
    /\ UNCHANGED <<todos, filter, project_filter, search, editing, edit_text,
                   delete_mode, show_project_palette, project_palette_search,
                   project_palette_selected, show_search, user_font_size, theme,
                   file>>

EditSelected ==
    /\ MainKey
    /\ IF selected < Len(Filtered)
       THEN LET real_idx == real_index(Filtered, selected)
                todo == Filtered[selected + 1][2]
            IN /\ editing' = Some(real_idx)
               /\ edit_text' = display_text(todo)
       ELSE UNCHANGED <<editing, edit_text>>
    /\ Handled("EditSelected", FALSE)
    /\ UNCHANGED <<todos, selected, filter, project_filter, search, delete_mode,
                   show_project_palette, project_palette_search,
                   project_palette_selected, show_search, user_font_size, theme,
                   file>>

AddNew ==
    /\ MainKey
    /\ Len(todos) < MaxTodos
    /\ editing' = Some(Len(todos))
    /\ edit_text' = IF project_filter.kind = "Project"
                    THEN project_filter.name \o <<":", " ">>
                    ELSE <<>>
    /\ Handled("AddNew", FALSE)
    /\ UNCHANGED <<todos, selected, filter, project_filter, search, delete_mode,
                   show_project_palette, project_palette_search,
                   project_palette_selected, show_search, user_font_size, theme,
                   file>>

\* mutant: the task is marked done instead of flipped
toggle_done_marks_done(ts, real_idx) ==
    [ts EXCEPT ![real_idx + 1].done = TRUE]

\* self.todos[real_idx].done = !self.todos[real_idx].done
toggle_done(ts, real_idx) ==
    [ts EXCEPT ![real_idx + 1].done = ~@]

ToggleSelected ==
    /\ MainKey
    /\ IF selected < Len(Filtered)
       THEN LET real_idx == real_index(Filtered, selected)
            IN /\ todos' = toggle_done(todos, real_idx)
               /\ file' = save_todos(todos')
               /\ Handled("ToggleSelected", TRUE)
       ELSE /\ UNCHANGED <<todos, file>>
            /\ Handled("ToggleSelected", FALSE)
    /\ UNCHANGED <<selected, filter, project_filter, search, editing, edit_text,
                   delete_mode, show_project_palette, project_palette_search,
                   project_palette_selected, show_search, user_font_size, theme>>

\* mutant: the selection is never moved back
selected_after_delete_unmoved(sel, filtered_len) == sel

\* DeleteKey: the selection after the removal
selected_after_delete(sel, filtered_len) ==
    IF sel >= filtered_len - 1 /\ sel > 0 THEN sel - 1 ELSE sel

DeleteKey ==
    /\ MainKey
    /\ IF delete_mode
       THEN /\ IF selected < Len(Filtered)
               THEN LET real_idx == real_index(Filtered, selected)
                        filtered_len == Len(Filtered)
                    IN /\ todos' = remove(todos, real_idx)
                       /\ selected' = selected_after_delete(selected, filtered_len)
                       /\ file' = save_todos(todos')
                       /\ Handled("DeleteKey", TRUE)
               ELSE /\ UNCHANGED <<todos, selected, file>>
                    /\ Handled("DeleteKey", FALSE)
            /\ delete_mode' = FALSE
       ELSE /\ delete_mode' = TRUE
            /\ UNCHANGED <<todos, selected, file>>
            /\ Handled("DeleteKey", FALSE)
    /\ UNCHANGED <<filter, project_filter, search, editing, edit_text,
                   show_project_palette, project_palette_search,
                   project_palette_selected, show_search, user_font_size, theme>>

\* mutant: the filter only switches between All and Active
next_without_done(f) ==
    CASE f = "All" -> "Active"
      [] f = "Active" -> "All"
      [] f = "Done" -> "All"

\* Filter::next
next(f) ==
    CASE f = "All" -> "Active"
      [] f = "Active" -> "Done"
      [] f = "Done" -> "All"

CycleFilter ==
    /\ MainKey
    /\ filter' = next(filter)
    /\ selected' = 0
    /\ Handled("CycleFilter", FALSE)
    /\ UNCHANGED <<todos, project_filter, search, editing, edit_text,
                   delete_mode, show_project_palette, project_palette_search,
                   project_palette_selected, show_search, user_font_size, theme,
                   file>>

\* Escape: it passes the search bar's gate of handle_keyboard
ClearSearch ==
    /\ ~show_project_palette /\ editing = None
    /\ search' = <<>>
    /\ show_search' = FALSE
    /\ selected' = 0
    /\ Handled("ClearSearch", FALSE)
    /\ UNCHANGED <<todos, filter, project_filter, editing, edit_text,
                   delete_mode, show_project_palette, project_palette_search,
                   project_palette_selected, user_font_size, theme, file>>

ClearDelete ==
    /\ MainKey
    /\ delete_mode' = FALSE
    /\ Handled("ClearDelete", FALSE)
    /\ UNCHANGED <<todos, selected, filter, project_filter, search, editing,
                   edit_text, show_project_palette, project_palette_search,
                   project_palette_selected, show_search, user_font_size, theme,
                   file>>

OpenProjectPalette ==
    /\ MainKey
    /\ show_project_palette' = TRUE
    /\ project_palette_search' = <<>>
    /\ project_palette_selected' = 0
    /\ Handled("OpenProjectPalette", FALSE)
    /\ UNCHANGED <<todos, selected, filter, project_filter, search, editing,
                   edit_text, delete_mode, show_search, user_font_size, theme,
                   file>>

ToggleSearch ==
    /\ MainKey
    /\ show_search' = ~show_search
    /\ IF ~show_search'
       THEN search' = <<>> /\ selected' = 0
       ELSE UNCHANGED <<search, selected>>
    /\ Handled("ToggleSearch", FALSE)
    /\ UNCHANGED <<todos, filter, project_filter, editing, edit_text,
                   delete_mode, show_project_palette, project_palette_search,
                   project_palette_selected, user_font_size, theme, file>>

\* mutant: after any project the filter goes back to All
next_project_filter_one_project(pf, projects) ==
    CASE pf.kind = "All" -> PF_NoProject
      [] pf.kind = "NoProject" ->
            IF projects # <<>> THEN PF_Project(projects[1]) ELSE PF_All
      [] pf.kind = "Project" -> PF_All

\* the project filter CycleProject moves to
next_project_filter(pf, projects) ==
    CASE pf.kind = "All" -> PF_NoProject
      [] pf.kind = "NoProject" ->
            IF projects # <<>> THEN PF_Project(projects[1]) ELSE PF_All
      [] pf.kind = "Project" ->
            IF \E i \in 1..Len(projects) : projects[i] = pf.name
            THEN LET current_idx ==
                         (CHOOSE i \in 1..Len(projects) : projects[i] = pf.name) - 1
                     next_idx == current_idx + 1
                 IN IF next_idx < Len(projects)
                    THEN PF_Project(projects[next_idx + 1])
                    ELSE PF_All
            ELSE PF_All

CycleProject ==
    /\ MainKey
    /\ project_filter' = next_project_filter(project_filter, get_all_projects(todos))
    /\ selected' = 0
    /\ Handled("CycleProject", FALSE)
    /\ UNCHANGED <<todos, filter, search, editing, edit_text,
                   delete_mode, show_project_palette, project_palette_search,
                   project_palette_selected, show_search, user_font_size, theme,
                   file>>

ClearAllFilters ==
    /\ MainKey
    /\ filter' = "All"
    /\ project_filter' = PF_All
    /\ search' = <<>>
    /\ show_search' = FALSE
    /\ selected' = 0
    /\ Handled("ClearAllFilters", FALSE)
    /\ UNCHANGED <<todos, editing, edit_text, delete_mode, show_project_palette,
                   project_palette_search, project_palette_selected,
                   user_font_size, theme, file>>

\* user_font_size.or(theme.font_size).unwrap_or(14.0)
current_size ==
    IF IsSome(user_font_size) THEN Unwrap(user_font_size)
    ELSE IF IsSome(theme.font_size) THEN Unwrap(theme.font_size)
    ELSE DefaultFontSize

\* the sizes the model lets the user reach
FontInReach(size) ==
    size - DefaultFontSize <= MaxFontSteps /\ DefaultFontSize - size <= MaxFontSteps

IncreaseFontSize ==
    /\ MainKey
    /\ FontInReach(Min(current_size + 1, MaxFontSize))
    /\ user_font_size' = Some(Min(current_size + 1, MaxFontSize))
    /\ Handled("IncreaseFontSize", FALSE)
    /\ UNCHANGED <<todos, selected, filter, project_filter, search, editing,
                   edit_text, delete_mode, show_project_palette,
                   project_palette_search, project_palette_selected, show_search,
                   theme, file>>

DecreaseFontSize ==
    /\ MainKey
    /\ FontInReach(Max(current_size - 1, MinFontSize))
    /\ user_font_size' = Some(Max(current_size - 1, MinFontSize))
    /\ Handled("DecreaseFontSize", FALSE)
    /\ UNCHANGED <<todos, selected, filter, project_filter, search, editing,
                   edit_text, delete_mode, show_project_palette,
                   project_palette_search, project_palette_selected, show_search,
                   theme, file>>

ResetFontSize ==
    /\ MainKey
    /\ user_font_size' = None
    /\ Handled("ResetFontSize", FALSE)
    /\ UNCHANGED <<todos, selected, filter, project_filter, search, editing,
                   edit_text, delete_mode, show_project_palette,
                   project_palette_search, project_palette_selected, show_search,
                   theme, file>>

\* ------------------------------------------------------------ text fields of update
\* render_todo_list shows the edit field for a new task, or in the row of
\* the edited task when that row is in the filtered view.
EditFieldShown ==
    /\ IsSome(editing)
    /\ \/ Unwrap(editing) = Len(todos)
       \/ \E i \in 1..Len(Filtered) : Filtered[i][1] = Unwrap(editing)

\* egui::TextEdit::singleline(&mut self.edit_text): the user edits the buffer
TypeEdit ==
    /\ EditFieldShown
    /\ \E s \in EditInputs : edit_text' = s
    /\ edit_text' # edit_text
    /\ Handled("TypeEdit", FALSE)
    /\ UNCHANGED <<todos, selected, filter, project_filter, search, editing,
                   delete_mode, show_project_palette, project_palette_search,
                   project_palette_selected, show_search, user_font_size, theme,
                   file>>

\* egui::TextEdit::singleline(&mut self.search): the user edits the search text
TypeSearch ==
    /\ show_search
    /\ \E s \in SearchInputs : search' = s
    /\ search' # search
    /\ Handled("TypeSearch", FALSE)
    /\ UNCHANGED <<todos, selected, filter, project_filter, editing, edit_text,
                   delete_mode, show_project_palette, project_palette_search,
                   project_palette_selected, show_search, user_font_size, theme,
                   file>>

\* ------------------------------------------------------------ render_project_palette
NameAll == <<"A", "l", "l">>
NameNoProject == <<"N", "o", " ", "p", "r", "o", "j", "e", "c", "t">>

\* the options of the palette: <<name, project filter>>
palette_options(ts) ==
    LET projects == get_all_projects(ts) IN
    <<<<NameAll, PF_All>>, <<NameNoProject, PF_NoProject>>>>
        \o [i \in 1..Len(projects) |-> <<projects[i], PF_Project(projects[i])>>]

\* the options whose name contains the palette's search text
filtered_options(ts, srch) ==
    LET keep(opt) ==
            IF srch = <<>> THEN TRUE
            ELSE contains(to_lowercase(opt[1]), to_lowercase(srch))
    IN SelectSeq(palette_options(ts), keep)

\* "Adjust selection if it's out of bounds"
palette_clamp(sel, n) == IF sel >= n THEN Max(n - 1, 0) ELSE sel

PaletteType ==
    /\ show_project_palette
    /\ \E s \in PaletteInputs : project_palette_search' = s
    /\ project_palette_search' # project_palette_search
    /\ project_palette_selected' =
           palette_clamp(project_palette_selected,
                         Len(filtered_options(todos, project_palette_search')))
    /\ Handled("PaletteType", FALSE)
    /\ UNCHANGED <<todos, selected, filter, project_filter, search, editing,
                   edit_text, delete_mode, show_project_palette, show_search,
                   user_font_size, theme, file>>

PaletteDown ==
    /\ show_project_palette
    /\ LET n == Len(filtered_options(todos, project_palette_search))
           sel == palette_clamp(project_palette_selected, n)
       IN project_palette_selected' = IF sel < Max(n - 1, 0) THEN sel + 1 ELSE sel
    /\ Handled("PaletteDown", FALSE)
    /\ UNCHANGED <<todos, selected, filter, project_filter, search, editing,
                   edit_text, delete_mode, show_project_palette,
                   project_palette_search, show_search, user_font_size, theme,
                   file>>

PaletteUp ==
    /\ show_project_palette
    /\ LET n == Len(filtered_options(todos, project_palette_search))
           sel == palette_clamp(project_palette_selected, n)
       IN project_palette_selected' = IF sel > 0 THEN sel - 1 ELSE sel
    /\ Handled("PaletteUp", FALSE)
    /\ UNCHANGED <<todos, selected, filter, project_filter, search, editing,
                   edit_text, delete_mode, show_project_palette,
                   project_palette_search, show_search, user_font_size, theme,
                   file>>

PaletteEnter ==
    /\ show_project_palette
    /\ LET opts == filtered_options(todos, project_palette_search)
           sel == palette_clamp(project_palette_selected, Len(opts))
       IN /\ project_palette_selected' = sel
          /\ IF sel < Len(opts)
             THEN /\ project_filter' = opts[sel + 1][2]
                  /\ show_project_palette' = FALSE
                  /\ selected' = 0
             ELSE UNCHANGED <<project_filter, show_project_palette, selected>>
    /\ Handled("PaletteEnter", FALSE)
    /\ UNCHANGED <<todos, filter, search, editing, edit_text, delete_mode,
                   project_palette_search, show_search, user_font_size, theme,
                   file>>

PaletteEscape ==
    /\ show_project_palette
    /\ show_project_palette' = FALSE
    /\ project_palette_selected' =
           palette_clamp(project_palette_selected,
                         Len(filtered_options(todos, project_palette_search)))
    /\ Handled("PaletteEscape", FALSE)
    /\ UNCHANGED <<todos, selected, filter, project_filter, search, editing,
                   edit_text, delete_mode, project_palette_search, show_search,
                   user_font_size, theme, file>>

\* ------------------------------------------------------------ the interactive session
Next ==
    \/ SaveEdit \/ CancelEdit
    \/ MoveDown \/ MoveUp \/ GoToBottom \/ GoToTop
    \/ EditSelected \/ AddNew \/ ToggleSelected \/ DeleteKey
    \/ CycleFilter \/ ClearSearch \/ ClearDelete
    \/ OpenProjectPalette \/ ToggleSearch \/ CycleProject \/ ClearAllFilters
    \/ IncreaseFontSize \/ DecreaseFontSize \/ ResetFontSize
    \/ TypeEdit \/ TypeSearch
    \/ PaletteType \/ PaletteDown \/ PaletteUp \/ PaletteEnter \/ PaletteEscape

Spec == Init /\ [][Next]_vars

\* ------------------------------------------------------------ parse_todo_text alone
ParseAlphabet == {"a", "b", " ", ":"}

InitParse ==
    /\ InitApp(None)
    /\ arg \in Strings(ParseAlphabet, MaxParseLen)
    /\ ret = None
    /\ NoConfigFile

\* a call of parse_todo_text(arg)
ParseCall ==
    /\ ret = None
    /\ ret' = Some(parse_todo_text(arg))
    /\ UNCHANGED <<appVars, file, histVars, arg, themeEnv>>

NextParse == ParseCall

SpecParse == InitParse /\ [][NextParse]_vars

\* ------------------------------------------------------------ filtered_todos alone
FilterTasks ==
    {Todo(t, d, p) : t \in {<<"a">>, <<"A", "b">>}, d \in BOOLEAN,
                     p \in {None, Some(<<"p">>)}}
FilterProjectFilters == {PF_All, PF_NoProject, PF_Project(<<"p">>), PF_Project(<<"P">>)}
FilterSearches == {<<>>, <<"A">>, <<"b">>, <<"P">>}

InitFilter ==
    /\ InitApp(None)
    /\ arg \in [todos : UNION {[1..n -> FilterTasks] : n \in 0..MaxFilterTodos},
                filter : {"All", "Active", "Done"},
                project_filter : FilterProjectFilters,
                search : FilterSearches]
    /\ ret = None
    /\ NoConfigFile

\* a call of filtered_todos on an app whose fields are those of arg
FilterCall ==
    /\ ret = None
    /\ ret' = Some(filtered_todos(arg.todos, arg.filter, arg.project_filter,
                                  arg.search))
    /\ UNCHANGED <<appVars, file, histVars, arg, themeEnv>>

NextFilter == FilterCall

SpecFilter == InitFilter /\ [][NextFilter]_vars

\* ------------------------------------------------------------ save_todos, then load_todos
RTAlphabet == {"a", " ", ":", "\n"}
RTMarkerText == <<"[", " ", "]", " ", "a">>
RTTexts == Strings(RTAlphabet, MaxRTText) \cup {RTMarkerText}
RTProjects == {None} \cup {Some(p) : p \in Strings(RTAlphabet, MaxRTProject)}
\* the task before and after the one that varies
RTNeighbour == Todo(<<"a">>, TRUE, Some(<<"a">>))
RTCollections ==
    {before \o <<Todo(t, d, p)>> \o after :
        before \in {<<>>, <<RTNeighbour>>}, after \in {<<>>, <<RTNeighbour>>},
        t \in RTTexts, d \in BOOLEAN, p \in RTProjects}

InitRoundTrip ==
    /\ InitApp(None)
    /\ arg \in RTCollections
    /\ ret = None
    /\ NoConfigFile

\* save_todos of an app whose collection is arg
RoundTripSave ==
    /\ file = None /\ ret = None
    /\ file' = save_todos(arg)
    /\ UNCHANGED <<appVars, histVars, callVars, themeEnv>>

\* load_todos of a new app from the file written
RoundTripLoad ==
    /\ file # None /\ ret = None
    /\ ret' = Some(load_todos(<<>>, file))
    /\ UNCHANGED <<appVars, file, histVars, arg, themeEnv>>

NextRoundTrip == RoundTripSave \/ RoundTripLoad

SpecRoundTrip == InitRoundTrip /\ [][NextRoundTrip]_vars

\* ============================================================ properties
\* ------------------------------------------------------------ CycleProject on a fixed collection
CycleProjects == {None, Some(<<"a">>), Some(<<"a", "b">>), Some(<<"b">>), Some(<<"P">>)}
CycleCollections ==
    UNION {[1..n -> {Todo(<<"a">>, FALSE, p) : p \in CycleProjects}] :
              n \in 0..MaxCycleTodos}

\* the app was started on the task file of one of the collections
InitCycle ==
    /\ \E ts \in CycleCollections : InitApp(save_todos(ts))
    /\ arg = <<>>
    /\ ret = None
    /\ NoConfigFile

\* KeyAction::CycleProject; arg records the project filters it has set
CycleProjectCall ==
    /\ MainKey
    /\ Len(arg) < MaxCycleSteps
    /\ project_filter' = next_project_filter(project_filter, get_all_projects(todos))
    /\ selected' = 0
    /\ arg' = Append(arg, project_filter')
    /\ lastCmd' = "CycleProject" /\ wrote' = FALSE /\ saved' = saved
    /\ UNCHANGED <<todos, filter, search, editing, edit_text,
                   delete_mode, show_project_palette, project_palette_search,
                   project_palette_selected, show_search, user_font_size, theme,
                   file, ret, themeEnv>>

NextCycle == CycleProjectCall \/ MoveDown

SpecCycle == InitCycle /\ [][NextCycle]_vars

\* ------------------------------------------------------------ load_todos alone
LoadLines ==
    {<<>>,
     <<"[", " ", "]", " ", "a">>,
     <<" ", "[", " ", "]", " ", "a">>,
     <<"\t", "[", "x", "]", " ", "p", ":", " ", "a", "\r">>,
     <<"[", "x", "]", " ", " ", "a", " ">>,
     <<"[", " ", "]", " ">>,
     <<"[", "x", "]">>,
     <<"[", "x", "]", "a">>,
     <<"x", "[", " ", "]", " ", "a">>,
     <<"[", "X", "]", " ", "a">>,
     <<"a">>}

RECURSIVE JoinLines(_)
\* the file content with the given lines, each ended by a line feed
JoinLines(ls) ==
    IF ls = <<>> THEN <<>> ELSE Head(ls) \o <<"\n">> \o JoinLines(Tail(ls))

LoadContents ==
    {JoinLines(ls) : ls \in UNION {[1..n -> LoadLines] : n \in 0..MaxLoadLines}}

InitLoad ==
    /\ InitApp(None)
    /\ arg \in LoadContents
    /\ ret = None
    /\ NoConfigFile

\* load_todos of a new app whose task file holds arg
LoadCall ==
    /\ ret = None
    /\ ret' = Some(load_todos(<<>>, Some(arg)))
    /\ UNCHANGED <<appVars, file, histVars, arg, themeEnv>>

NextLoad == LoadCall

SpecLoad == InitLoad /\ [][NextLoad]_vars

\* ------------------------------------------------------------ main and handle_cli_command
\* args[1..]: the command line after the program name
CliTexts == Strings({"a", " ", ":"}, MaxCliText)
CliArgs ==
    {<<>>, <<<<"a", "d", "d">>>>, <<<<"h", "e", "l", "p">>>>, <<<<"-", "h">>>>,
     <<<<"l", "i", "s", "t">>>>}
        \cup {<<<<"a", "d", "d">>, t>> : t \in CliTexts}
\* "help" | "--help" | "-h"
HelpWords == {<<"h", "e", "l", "p">>, <<"-", "-", "h", "e", "l", "p">>, <<"-", "h">>}
CliFiles == {None, Some(FileByHand), Some(<<"[", " ", "]", " ", "a", "\n">>)}

\* the process has been started with the command line arg; no TodoApp yet
InitCli ==
    /\ file \in CliFiles
    /\ arg \in CliArgs
    /\ ret = None
    /\ todos = <<>>
    /\ selected = 0
    /\ filter = "All"
    /\ project_filter = PF_All
    /\ search = <<>>
    /\ editing = None
    /\ edit_text = <<>>
    /\ delete_mode = FALSE
    /\ show_project_palette = FALSE
    /\ project_palette_search = <<>>
    /\ project_palette_selected = 0
    /\ show_search = FALSE
    /\ user_font_size = None
    /\ theme = Theme_default
    /\ lastCmd = "main"
    /\ wrote = FALSE
    /\ saved = FALSE
    /\ NoConfigFile

\* how the process ended: its exit status and whether it wrote to stderr
Exit(code, err) == Some([code |-> code, stderr |-> err])

\* mutant: the result of fs::write is dropped, as save_todos does
cli_add_exit_ignores_write(ok) == Exit(0, FALSE)

\* fs::write(&storage_path, content)?; ... std::process::exit(0), and main's
\* eprintln!("Error: {}", e); std::process::exit(1) for the Err
cli_add_exit(ok) == IF ok THEN Exit(0, FALSE) ELSE Exit(1, TRUE)

\* mutant: the add form writes back what it read
cli_add_todos_nothing_new(f, task_text) == load_todos(<<>>, f)

\* the collection the add form writes: the tasks of the file (none when it
\* cannot be read), then the new one
cli_add_todos(f, task_text) ==
    LET r == parse_todo_text(task_text)
    IN load_todos(<<>>, f) \o <<Todo(r[1], FALSE, r[2])>>

Running == lastCmd = "main"
Terminated(cmd, w, e) ==
    /\ lastCmd' = cmd /\ wrote' = w /\ saved' = (saved \/ w)
    /\ ret' = e
    /\ UNCHANGED <<appVars, arg, themeEnv>>

\* no argument: handle_cli_command returns Ok(()) and main starts the GUI
\* with TodoApp::new
CliRunGui ==
    /\ Running /\ Len(arg) < 1
    /\ todos' = load_todos(<<>>, file)
    /\ lastCmd' = "new"
    /\ UNCHANGED <<selected, filter, project_filter, search, editing, edit_text,
                   delete_mode, show_project_palette, project_palette_search,
                   project_palette_selected, show_search, user_font_size, theme,
                   file, wrote, saved, callVars, themeEnv>>

\* "add" without a task text
CliAddUsage ==
    /\ Running /\ Len(arg) = 1 /\ arg[1] = <<"a", "d", "d">>
    /\ Terminated("add", FALSE, Exit(1, TRUE))
    /\ UNCHANGED file

\* "add" with a task text; fs::write succeeds (ok) or fails
CliAdd ==
    /\ Running /\ Len(arg) >= 2 /\ arg[1] = <<"a", "d", "d">>
    /\ \E ok \in BOOLEAN :
          /\ file' = IF ok THEN Some(save_content(cli_add_todos(file, arg[2])))
                     ELSE file
          /\ Terminated("add", ok, cli_add_exit(ok))

CliHelp ==
    /\ Running /\ Len(arg) >= 1 /\ arg[1] \in HelpWords
    /\ Terminated("help", FALSE, Exit(0, FALSE))
    /\ UNCHANGED file

CliUnknown ==
    /\ Running /\ Len(arg) >= 1 /\ arg[1] \notin {<<"a", "d", "d">>} \cup HelpWords
    /\ Terminated("unknown", FALSE, Exit(1, TRUE))
    /\ UNCHANGED file

\* the GUI is up: TodoApp::new has run and the process has not ended
GuiRunning == lastCmd \notin {"main", "add", "help", "unknown"}

\* KeyAction::ToggleSelected when fs::write of save_todos fails: the Err is
\* dropped by `let _ =`
ToggleSelectedWriteFails ==
    /\ GuiRunning /\ MainKey
    /\ selected < Len(Filtered)
    /\ todos' = toggle_done(todos, real_index(Filtered, selected))
    /\ lastCmd' = "ToggleSelected" /\ wrote' = FALSE /\ saved' = saved
    /\ UNCHANGED <<selected, filter, project_filter, search, editing, edit_text,
                   delete_mode, show_project_palette, project_palette_search,
                   project_palette_selected, show_search, user_font_size, theme,
                   file, callVars, themeEnv>>

NextCli ==
    \/ CliRunGui \/ CliAddUsage \/ CliAdd \/ CliHelp \/ CliUnknown
    \/ (GuiRunning /\ ToggleSelected)
    \/ (GuiRunning /\ MoveDown)
    \/ ToggleSelectedWriteFails

SpecCli == InitCli /\ [][NextCli]_vars

\* ------------------------------------------------------------ load_theme
Hex(str) == Some(str)
BgOnly ==
    Settings(Hex(<<"#", "0", "a", "0", "b", "0", "c">>), None, None, None, None,
             None, None, None, None, None, None, None)
Palette ==
    Settings(None, Hex(<<"f", "f", "F", "F", "0", "0">>),
             Hex(<<"#", "0", "0", "0", "0", "0", "1">>),
             Hex(<<"#", "0", "0", "0", "0", "0", "2">>), None, None,
             Hex(<<"#", "0", "0", "0", "0", "0", "3">>), None,
             Hex(<<"#", "f", "f", "f">>),
             Hex(<<"#", "0", "0", "0", "0", "0", "4">>),
             Some(12), Some(<<"m", "o", "n", "o">>))
BadColours ==
    Settings(Hex(<<"#", "g", "g", "0", "0", "0", "0">>),
             Hex(<<"#", "#", "1", "0", "2", "0", "3", "0">>),
             Hex(<<"+", "1", "+", "2", "+", "3">>), None,
             Hex(<<"-", "1", "0", "0", "0", "0">>), None, None, None, None, None,
             Some(9), None)
Cyan ==
    Settings(Hex(<<"#", "0", "0", "0", "0", "0", "5">>), None, None, None, None,
             None, None, None, Hex(<<"0", "0", "0", "0", "0", "6">>), None,
             None, Some(<<"s", "a", "n", "s">>))
NonAsciiColour ==
    Settings(None, Hex(<<"a", NonAscii, "1", "2", "3">>), None, None, None,
             None, None, None, None, None, None, None)

ImportLists(n) == UNION {[1..k -> ThemePaths] : k \in 0..n}
FilesWith(lists, settings) ==
    {AbsentFile, ConfigFile("unreadable", <<>>, NoSettings)}
        \cup {ConfigFile(k, l, st) : k \in {"config"}, l \in lists, st \in settings}
        \cup {ConfigFile("malformed", <<>>, st) : st \in settings}

\* the config files on disk when the app starts
ThemeFileSystems ==
    {[p \in ThemePaths |->
         CASE p = RootPath -> r [] p = "a.toml" -> a [] p = "b.toml" -> b] :
        r \in FilesWith(ImportLists(MaxThemeImports),
                        {NoSettings, BgOnly, Palette, BadColours, NonAsciiColour}),
        a \in FilesWith(ImportLists(1), {BgOnly, BadColours, Cyan}),
        b \in FilesWith(ImportLists(1), {Palette, NonAsciiColour})}

\* the frames the thread's stack has room for: more than any chain of
\* imports without a repeated file needs
StackLimit == Cardinality(ThemePaths) + 1

\* TodoApp::new up to the call of load_theme, with the config files on disk
InitTheme ==
    /\ InitApp(None)
    /\ arg = None
    /\ ret = None
    /\ config_files \in ThemeFileSystems
    /\ config_path = get_alacritty_config_path(config_files)
    /\ theme_call = IdleCall

ThemeFrame ==
    UNCHANGED <<todos, selected, filter, project_filter, search, editing,
                edit_text, delete_mode, show_project_palette,
                project_palette_search, project_palette_selected, show_search,
                user_font_size, file, histVars, callVars, config_files,
                config_path>>

Frame(path) == [path |-> path, idx |-> 0]

\* the call returns to its caller, or load_theme is over
return(stack) ==
    [status |-> IF Len(stack) = 1 THEN "done" ELSE "running",
     stack |-> SubSeq(stack, 1, Len(stack) - 1)]

\* TodoApp::load_theme: the theme is reset and the file at config_path, if
\* there is one, is entered
LoadTheme ==
    /\ theme_call.status = "idle"
    /\ theme' = Theme_default
    /\ theme_call' = IF config_path = None
                     THEN [status |-> "done", stack |-> <<>>]
                     ELSE [status |-> "running", stack |-> <<Frame(config_path[1])>>]
    /\ ThemeFrame

TopFrame == theme_call.stack[Len(theme_call.stack)]
TopConfig ==
    IF readable(config_files[TopFrame.path])
    THEN from_str(config_files[TopFrame.path])
    ELSE None

\* load_theme_from_file of a file that cannot be read or parsed: nothing
LoadThemeUnusable ==
    /\ theme_call.status = "running"
    /\ TopConfig = None
    /\ theme_call' = return(theme_call.stack)
    /\ UNCHANGED theme
    /\ ThemeFrame

\* the loop over the imports: the next import is entered if it exists; the
\* stack overflows when it has no room for the frame
LoadThemeImport ==
    /\ theme_call.status = "running"
    /\ TopConfig # None
    /\ TopFrame.idx < Len(imports_of(TopConfig[1]))
    /\ LET import_path == imports_of(TopConfig[1])[TopFrame.idx + 1]
           stack == [theme_call.stack EXCEPT ![Len(theme_call.stack)].idx = @ + 1]
       IN theme_call' =
              IF ~exists(config_files[import_path])
              THEN [status |-> "running", stack |-> stack]
              ELSE IF Len(stack) >= StackLimit
              THEN [status |-> "overflow", stack |-> stack]
              ELSE [status |-> "running", stack |-> Append(stack, Frame(import_path))]
    /\ UNCHANGED theme
    /\ ThemeFrame

\* after the imports the file's own settings are applied, and the call
\* returns; a panic of parse_hex_color ends the process
LoadThemeApply ==
    /\ theme_call.status = "running"
    /\ TopConfig # None
    /\ TopFrame.idx >= Len(imports_of(TopConfig[1]))
    /\ LET t == apply_settings(theme, TopConfig[1].settings)
       IN /\ theme' = t.theme
          /\ theme_call' = IF t.panic
                           THEN [status |-> "panic", stack |-> theme_call.stack]
                           ELSE return(theme_call.stack)
    /\ ThemeFrame

NextTheme == LoadTheme \/ LoadThemeUnusable \/ LoadThemeImport \/ LoadThemeApply

SpecTheme == InitTheme /\ [][NextTheme]_vars

\* ------------------------------------------------------------ theme hot reload
\* what the root config file and a.toml hold at start and after an
\* external edit
ReloadRootFiles ==
    {AbsentFile,
     ConfigFile("config", <<>>, BgOnly),
     ConfigFile("config", <<"a.toml">>, Palette),
     ConfigFile("config", <<"a.toml">>, BadColours),
     ConfigFile("malformed", <<>>, BgOnly)}
ReloadImportFiles == {AbsentFile, ConfigFile("config", <<>>, Cyan)}

InitReload ==
    /\ InitApp(None)
    /\ arg = None
    /\ ret = None
    /\ \E r \in ReloadRootFiles, a \in ReloadImportFiles :
          config_files = [p \in ThemePaths |->
                             CASE p = RootPath -> r
                               [] p = "a.toml" -> a
                               [] OTHER -> AbsentFile]
    /\ config_path = get_alacritty_config_path(config_files)
    /\ theme_call = IdleCall

\* TodoApp::update, last_theme_check.elapsed() > 500 ms: load_theme is
\* called again, with the config_path found by TodoApp::new
HotReload ==
    /\ theme_call.status = "done"
    /\ theme' = Theme_default
    /\ theme_call' = IF config_path = None
                     THEN [status |-> "done", stack |-> <<>>]
                     ELSE [status |-> "running", stack |-> <<Frame(config_path[1])>>]
    /\ lastCmd' = "load_theme"
    /\ UNCHANGED <<todos, selected, filter, project_filter, search, editing,
                   edit_text, delete_mode, show_project_palette,
                   project_palette_search, project_palette_selected, show_search,
                   user_font_size, file, wrote, saved, callVars, config_files,
                   config_path>>

\* another program writes, replaces or removes a config file between two
\* frames
ExternalEdit ==
    /\ theme_call.status = "done"
    /\ \/ \E r \in ReloadRootFiles :
             config_files' = [config_files EXCEPT ![RootPath] = r]
       \/ \E a \in ReloadImportFiles :
             config_files' = [config_files EXCEPT !["a.toml"] = a]
    /\ config_files' # config_files
    /\ lastCmd' = "external edit"
    /\ UNCHANGED <<appVars, file, wrote, saved, callVars, config_path, theme_call>>

NextReload ==
    \/ LoadTheme \/ HotReload \/ ExternalEdit
    \/ LoadThemeUnusable \/ LoadThemeImport \/ LoadThemeApply

SpecReload == InitReload /\ [][NextReload]_vars

\* ------------------------------------------------------------ colour strings
\* two characters of a colour string: digits of both cases, a signed digit,
\* a letter that is no digit
ColourPairs ==
    {<<"0", "0">>, <<"0", "a">>, <<"F", "f">>, <<"+", "1">>, <<"-", "1">>,
     <<"g", "0">>}
ColourBodies ==
    {r \o g \o b : r \in ColourPairs, g \in ColourPairs, b \in ColourPairs}
    \cup {<<>>, <<"f", "f", "f">>, <<"0", "0", "0", "0", "1">>,
          <<"0", "0", "0", "0", "0", "0", "1">>,
          <<"a", NonAscii, "1", "2", "3">>, <<"1", "2", "a", NonAscii, "3">>,
          <<NonAscii, NonAscii, NonAscii>>,
          <<"1", "2", "3", "4", "5", NonAscii>>}
ColourPrefixes == {<<>>, <<"#">>, <<"#", "#">>}
ColourStrings == {p \o b : p \in ColourPrefixes, b \in ColourBodies}

InitColour ==
    /\ InitApp(None)
    /\ arg \in ColourStrings
    /\ ret = None
    /\ NoConfigFile

\* if let Some(bg) = primary.background {
\*     if let Ok(color) = Self::parse_hex_color(&bg) { self.theme.background = color; } }
ParseColourCall ==
    /\ ret = None
    /\ lastCmd = "new"
    /\ LET r == parse_hex_color(arg)
           t == with_color(Applied(theme), Some(arg), {"background"}, {})
       IN /\ ret' = IF r.kind = "Panic" THEN None ELSE Some(r)
          /\ theme' = t.theme
          /\ lastCmd' = IF t.panic THEN "panic" ELSE "parse_hex_color"
    /\ UNCHANGED <<todos, selected, filter, project_filter, search, editing,
                   edit_text, delete_mode, show_project_palette,
                   project_palette_search, project_palette_selected, show_search,
                   user_font_size, file, wrote, saved, arg, themeEnv>>

NextColour == ParseColourCall

SpecColour == InitColour /\ [][NextColour]_vars

\* ------------------------------------------------------------ project colours
\* A u32 is kept as two 16-bit halves, so that no intermediate value leaves
\* the range of the model checker's integers.
Half == 65536
U32(hi, lo) == [hi |-> hi, lo |-> lo]

\* the u8 value of a byte of as_bytes
ByteValue(b) ==
    CASE b = "C3" -> 195 [] b = "A9" -> 169 [] OTHER -> Byte(b)

\* mutant: the hash stops at u32::MAX instead of wrapping
wrapping_mul_add_saturating(hash, byte) ==
    LET lo == hash.lo * 31 + byte
        hi == hash.hi * 31 + (lo \div Half)
    IN IF hi >= Half THEN U32(Half - 1, Half - 1) ELSE U32(hi, lo % Half)

\* hash.wrapping_mul(31).wrapping_add(byte as u32)
wrapping_mul_add(hash, byte) ==
    LET lo == hash.lo * 31 + byte
        hi == hash.hi * 31 + (lo \div Half)
    IN U32(hi % Half, lo % Half)

RECURSIVE hash_bytes(_, _)
\* for byte in project.bytes() { hash = .. }
hash_bytes(hash, bytes) ==
    IF bytes = <<>> THEN hash
    ELSE hash_bytes(wrapping_mul_add(hash, ByteValue(Head(bytes))), Tail(bytes))

\* (hash as usize) % len
color_index(hash, len) ==
    ((hash.hi % len) * (Half % len) + (hash.lo % len)) % len

\* (c as u16 * percent / 100).min(255) as u8, for each channel
brightened(color, percent) ==
    from_rgb(Min((color[1] * percent) \div 100, 255),
             Min((color[2] * percent) \div 100, 255),
             Min((color[3] * percent) \div 100, 255))

\* the vector project_colors of get_project_color
project_colors(th) ==
    LET some(entry) == IF entry # None THEN <<entry[1]>> ELSE <<>>
        base == <<th.accent>>
                  \o some(th.red) \o some(th.green) \o some(th.yellow)
                  \o (IF th.blue # None /\ th.blue[1] # th.accent
                      THEN <<th.blue[1]>> ELSE <<>>)
                  \o some(th.magenta)
                  \o (IF th.cyan # None /\ th.cyan[1] # th.done_color
                      THEN <<th.cyan[1]>> ELSE <<>>)
    IN IF Len(base) < 4
       THEN base \o <<brightened(th.accent, 120), brightened(th.border, 140)>>
       ELSE base

\* TodoApp::get_project_color
get_project_color(th, project) ==
    LET colors == project_colors(th)
        hash == hash_bytes(U32(0, 0), as_bytes(project))
    IN colors[color_index(hash, Len(colors)) + 1]

\* project names: no whitespace, no colon, not empty
NameAlphabet == {"a", "x", NonAscii}
ProjectNames == Strings(NameAlphabet, MaxNameLen) \ {<<>>}

\* themes load_theme can leave: the defaults, and the defaults under the
\* settings of a file (blue and accent equal, cyan and done colour equal,
\* both)
ColourThemes ==
    {Theme_default,
     apply_settings(Theme_default, Palette).theme,
     apply_settings(Theme_default, Cyan).theme,
     apply_settings(Theme_default, [Palette EXCEPT !.cyan = Cyan.cyan]).theme}

InitProjectColour ==
    /\ InitApp(None)
    /\ arg \in ProjectNames
    /\ ret = None
    /\ NoConfigFile

\* a theme was loaded and a project label of the list is painted
GetProjectColorCall ==
    /\ ret = None
    /\ \E th \in ColourThemes :
          /\ theme' = th
          /\ ret' = Some(get_project_color(th, arg))
    /\ lastCmd' = "get_project_color"
    /\ UNCHANGED <<todos, selected, filter, project_filter, search, editing,
                   edit_text, delete_mode, show_project_palette,
                   project_palette_search, project_palette_selected, show_search,
                   user_font_size, file, wrote, saved, arg, themeEnv>>

NextProjectColour == GetProjectColorCall

SpecProjectColour == InitProjectColour /\ [][NextProjectColour]_vars

\* ------------------------------------------------------------ frames of several keys
\* handle_keyboard with several key events in the frame: the commands are
\* chosen for all events from the state at the start of the frame, then
\* applied one after another. arg holds the commands still to apply, ret
\* the task that was at the selected position when EditSelected was applied.
FrameKeys == {"Enter", "Escape", "A", "D", "X"}
FrameEvents == UNION {[1..n -> FrameKeys] : n \in 1..MaxFrameKeys}

\* the body of the loop over the events, for one key: the commands pushed
key_actions(key) ==
    IF show_project_palette \/ (show_search /\ key # "Escape") THEN <<>>
    ELSE IF IsSome(editing)
    THEN CASE key = "Enter" -> <<"SaveEdit">>
           [] key = "Escape" -> <<"CancelEdit">>
           [] OTHER -> <<>>
    ELSE CASE key = "Enter" -> <<"EditSelected">>
           [] key = "A" -> <<"AddNew">>
           [] key = "X" -> <<"ToggleSelected">>
           [] key = "D" -> <<"DeleteKey">>
           [] key = "Escape" -> <<"ClearSearch">>

RECURSIVE frame_actions(_)
frame_actions(events) ==
    IF events = <<>> THEN <<>>
    ELSE key_actions(Head(events)) \o frame_actions(Tail(events))

FrameCollection ==
    <<Todo(<<"a">>, FALSE, None), Todo(<<"b">>, FALSE, Some(<<"p">>)),
      Todo(<<"x">>, TRUE, None)>>

InitFrame ==
    /\ \E n \in 0..Len(FrameCollection) :
          InitApp(save_todos(SubSeq(FrameCollection, 1, n)))
    /\ arg = <<>>
    /\ ret = None
    /\ NoConfigFile

\* ctx.input(..): the events of the frame are turned into commands
CollectActions ==
    /\ arg = <<>>
    /\ \E events \in FrameEvents : arg' = frame_actions(events)
    /\ arg' # <<>>
    /\ lastCmd' = "handle_keyboard"
    /\ wrote' = FALSE
    /\ UNCHANGED <<appVars, file, saved, ret, themeEnv>>

\* for action in actions { self.handle_key_action(action) }: one command
\* leaves the list
Dispatched(cmd, w) ==
    /\ arg # <<>> /\ Head(arg) = cmd
    /\ arg' = Tail(arg)
    /\ lastCmd' = cmd
    /\ wrote' = w
    /\ saved' = (saved \/ w)
    /\ UNCHANGED themeEnv

DispatchSaveEdit ==
    /\ LET commit == IsSome(editing) /\ has_text(edit_text)
           r == parse_todo_text(trim(edit_text))
       IN /\ todos' = IF commit
                      THEN commit_edit(todos, Unwrap(editing), r[1], r[2])
                      ELSE todos
          /\ file' = IF commit THEN save_todos(todos') ELSE file
          /\ Dispatched("SaveEdit", commit)
    /\ editing' = None
    /\ edit_text' = IF IsSome(editing) THEN <<>> ELSE edit_text
    /\ UNCHANGED <<selected, filter, project_filter, search, delete_mode,
                   show_project_palette, project_palette_search,
                   project_palette_selected, show_search, user_font_size, theme,
                   ret>>

DispatchCancelEdit ==
    /\ Dispatched("CancelEdit", FALSE)
    /\ editing' = None
    /\ edit_text' = <<>>
    /\ UNCHANGED <<todos, selected, filter, project_filter, search, delete_mode,
                   show_project_palette, project_palette_search,
                   project_palette_selected, show_search, user_font_size, theme,
                   file, ret>>

DispatchEditSelected ==
    /\ Dispatched("EditSelected", FALSE)
    /\ IF selected < Len(Filtered)
       THEN /\ editing' = Some(real_index(Filtered, selected))
            /\ edit_text' = display_text(Filtered[selected + 1][2])
            /\ ret' = Some(Filtered[selected + 1][2])
       ELSE UNCHANGED <<editing, edit_text, ret>>
    /\ UNCHANGED <<todos, selected, filter, project_filter, search, delete_mode,
                   show_project_palette, project_palette_search,
                   project_palette_selected, show_search, user_font_size, theme,
                   file>>

DispatchAddNew ==
    /\ Dispatched("AddNew", FALSE)
    /\ editing' = Some(Len(todos))
    /\ edit_text' = IF project_filter.kind = "Project"
                    THEN project_filter.name \o <<":", " ">>
                    ELSE <<>>
    /\ ret' = None
    /\ UNCHANGED <<todos, selected, filter, project_filter, search, delete_mode,
                   show_project_palette, project_palette_search,
                   project_palette_selected, show_search, user_font_size, theme,
                   file>>

DispatchToggleSelected ==
    /\ IF selected < Len(Filtered)
       THEN /\ todos' = toggle_done(todos, real_index(Filtered, selected))
            /\ file' = save_todos(todos')
            /\ Dispatched("ToggleSelected", TRUE)
       ELSE /\ UNCHANGED <<todos, file>>
            /\ Dispatched("ToggleSelected", FALSE)
    /\ UNCHANGED <<selected, filter, project_filter, search, editing, edit_text,
                   delete_mode, show_project_palette, project_palette_search,
                   project_palette_selected, show_search, user_font_size, theme,
                   ret>>

DispatchDeleteKey ==
    /\ IF delete_mode
       THEN /\ IF selected < Len(Filtered)
               THEN /\ todos' = remove(todos, real_index(Filtered, selected))
                    /\ selected' = selected_after_delete(selected, Len(Filtered))
                    /\ file' = save_todos(todos')
                    /\ Dispatched("DeleteKey", TRUE)
               ELSE /\ UNCHANGED <<todos, selected, file>>
                    /\ Dispatched("DeleteKey", FALSE)
            /\ delete_mode' = FALSE
       ELSE /\ delete_mode' = TRUE
            /\ UNCHANGED <<todos, selected, file>>
            /\ Dispatched("DeleteKey", FALSE)
    /\ UNCHANGED <<filter, project_filter, search, editing, edit_text,
                   show_project_palette, project_palette_search,
                   project_palette_selected, show_search, user_font_size, theme,
                   ret>>

DispatchClearSearch ==
    /\ Dispatched("ClearSearch", FALSE)
    /\ search' = <<>>
    /\ show_search' = FALSE
    /\ selected' = 0
    /\ UNCHANGED <<todos, filter, project_filter, editing, edit_text,
                   delete_mode, show_project_palette, project_palette_search,
                   project_palette_selected, user_font_size, theme, file, ret>>

NextFrame ==
    \/ CollectActions
    \/ DispatchSaveEdit \/ DispatchCancelEdit \/ DispatchEditSelected
    \/ DispatchAddNew \/ DispatchToggleSelected \/ DispatchDeleteKey
    \/ DispatchClearSearch

SpecFrame == InitFrame /\ [][NextFrame]_vars

\* ------------------------------------------------------------ edit and commit
\* lines of task files written by hand or by the program: plain, with a
\* project, two spaces after the marker, colons that split no project off,
\* a second colon, blanks around the project
EditLines ==
    {<<"[", " ", "]", " ", "a">>,
     <<"[", "x", "]", " ", "p", ":", " ", "a">>,
     <<"[", " ", "]", " ", " ", "a">>,
     <<"[", " ", "]", " ", ":", "a">>,
     <<"[", " ", "]", " ", "p", ":">>,
     <<"[", " ", "]", " ", "p", ":", " ", "a", ":", " ", "b">>,
     <<"[", "x", "]", " ", "p", " ", "q", " ", ":", "a">>,
     <<"[", " ", "]", " ", "\t", ":", "a">>}

EditFiles ==
    {JoinLines(ls) : ls \in UNION {[1..n -> EditLines] : n \in 0..MaxEditLines}}

InitEdit ==
    /\ \E f \in EditFiles : InitApp(Some(f))
    /\ arg = None
    /\ ret = None
    /\ NoConfigFile

\* the user moves to a task, opens it and commits or cancels without typing
NextEdit == MoveDown \/ EditSelected \/ SaveEdit \/ CancelEdit

SpecEdit == InitEdit /\ [][NextEdit]_vars

\* ------------------------------------------------------------ two writers
\* An interactive instance and runs of `omado add` on the same task file.
\* The add form is another process: it reads the file, then writes it. ret
\* holds the locals of a run that has read and not yet written (the new
\* task, and the collection it has read and extended), arg the tasks the
\* add form has written since the instance loaded.
WriterTexts == {<<"b">>, <<"p", ":", " ", "b">>}

InitWriters ==
    /\ \E f \in CliFiles : InitApp(f)
    /\ arg = <<>>
    /\ ret = None
    /\ NoConfigFile

\* handle_cli_command("add"): fs::read_to_string and todos.push(todo)
CliAddRead ==
    /\ ret = None
    /\ Len(arg) < MaxCliAdds
    /\ \E t \in WriterTexts :
          ret' = Some([todo |-> Todo(parse_todo_text(t)[1], FALSE,
                                     parse_todo_text(t)[2]),
                       todos |-> cli_add_todos(file, t)])
    /\ lastCmd' = "add: read"
    /\ wrote' = FALSE
    /\ UNCHANGED <<appVars, file, saved, arg, themeEnv>>

\* handle_cli_command("add"): fs::write, which may fail, and the exit
CliAddWrite ==
    /\ ret # None
    /\ \E ok \in BOOLEAN :
          /\ file' = IF ok THEN Some(save_content(ret[1].todos)) ELSE file
          /\ arg' = IF ok THEN Append(arg, ret[1].todo) ELSE arg
          /\ wrote' = ok
    /\ ret' = None
    /\ lastCmd' = "add"
    /\ UNCHANGED <<appVars, saved, themeEnv>>

NextWriters == CliAddRead \/ CliAddWrite \/ ToggleSelected \/ MoveDown

SpecWriters == InitWriters /\ [][NextWriters]_vars

\* ------------------------------------------------------------ vocabulary
\* the selection is a position of the filtered view, or 0 when it is empty
SelectionInRange ==
    IF Filtered = <<>> THEN selected = 0 ELSE selected <= Len(Filtered) - 1

\* the line of the task file for one task: marker, optional "project: ", text
FileLine(t) ==
    (IF t.done THEN <<"[", "x", "]", " ">> ELSE <<"[", " ", "]", " ">>)
        \o (IF t.project = None THEN <<>> ELSE t.project[1] \o <<":", " ">>)
        \o t.text \o <<"\n">>

RECURSIVE FileOf(_)
\* the task file of a collection: one line per task, in order
FileOf(ts) == IF ts = <<>> THEN <<>> ELSE FileLine(ts[1]) \o FileOf(Tail(ts))

\* ts2 is ts1 without the task at the 0-based index r, all others in order
RemovedAt(ts1, ts2, r) ==
    /\ Len(ts2) = Len(ts1) - 1
    /\ \A i \in 1..Len(ts2) : ts2[i] = IF i <= r THEN ts1[i] ELSE ts1[i + 1]

\* the commands of the claim C1 that are not the delete command
NonDeleteCmds ==
    {"MoveDown", "MoveUp", "GoToTop", "GoToBottom", "ToggleSelected", "AddNew",
     "EditSelected", "CycleFilter", "CycleProject", "ClearAllFilters",
     "ClearSearch", "ToggleSearch", "IncreaseFontSize", "DecreaseFontSize",
     "ResetFontSize", "ClearDelete"}

\* ------------------------------------------------------------ C1
\* C1 (as stated): once a delete command has armed the pending-delete flag,
\* every non-delete command the view accepts clears the flag, so a delete
\* after it removes nothing.
C1_NonDeleteDisarms ==
    [][(delete_mode /\ lastCmd' \in NonDeleteCmds) => ~delete_mode']_vars

\* ------------------------------------------------------------ C2
\* C2: with the flag not armed a delete command changes no task and arms the
\* flag; with the flag armed and the selection a position of the filtered
\* view it removes exactly the task whose real index is paired with that
\* position, keeps all others in order, and disarms.
C2_TwoPhaseDelete ==
    [][lastCmd' = "DeleteKey" =>
          IF ~delete_mode
          THEN todos' = todos /\ delete_mode'
          ELSE selected < Len(Filtered) =>
                  /\ RemovedAt(todos, todos', Filtered[selected + 1][1])
                  /\ ~delete_mode']_vars

\* a confirmed delete has removed a task of a collection of two under a
\* filter that hides the other one
C2_Witness ==
    /\ lastCmd = "DeleteKey" /\ wrote /\ ~delete_mode
    /\ Len(todos) = 1 /\ filter # "All"

\* ------------------------------------------------------------ C3
\* C3 (as stated): after every command the selection lies in
\* [0, filtered_len - 1], and is 0 when the filtered view is empty.
C3_SelectionInvariant == SelectionInRange

\* ------------------------------------------------------------ C4
\* C4: once a mutation was committed, the task file is the serialization of
\* the current collection and loading it gives back the collection.
C4_PersistedState ==
    saved => /\ file = Some(FileOf(todos))
             /\ load_todos(<<>>, file) = todos

\* a task with a project was saved and a command that writes nothing followed
C4_Witness ==
    /\ saved /\ ~wrote
    /\ \E i \in 1..Len(todos) : todos[i].project # None

\* ------------------------------------------------------------ C5
\* the collections of the claim as stated: no text begins with a marker
\* and no project name has a colon
C5_Stated(ts) ==
    \A i \in 1..Len(ts) :
        /\ ~starts_with(ts[i].text, <<"[", " ", "]", " ">>)
        /\ ~starts_with(ts[i].text, <<"[", "x", "]", " ">>)
        /\ ts[i].project # None =>
               \A k \in 1..Len(ts[i].project[1]) : ts[i].project[1][k] # ":"

\* the text is left whole by the project-split rule: it has no colon, or
\* only whitespace before or after its first colon
C5_Unsplit(text) ==
    \A c \in 1..Len(text) :
        (text[c] = ":" /\ \A k \in 1..(c - 1) : text[k] # ":") =>
            \/ \A k \in 1..(c - 1) : IsWhitespace(text[k])
            \/ \A k \in (c + 1)..Len(text) : IsWhitespace(text[k])

\* what the format can hold: no line break in text or project name, a text
\* that is not empty and does not end in whitespace; with a project, a
\* name that is not empty and has no whitespace at either end, and a text
\* that does not start with whitespace; without one, a text the
\* project-split rule leaves whole
C5_Representable(t) ==
    /\ t.text # <<>>
    /\ \A k \in 1..Len(t.text) : t.text[k] # "\n"
    /\ ~IsWhitespace(t.text[Len(t.text)])
    /\ t.project = None => C5_Unsplit(t.text)
    /\ t.project # None =>
          LET p == t.project[1] IN
          /\ p # <<>>
          /\ \A k \in 1..Len(p) : p[k] # "\n"
          /\ ~IsWhitespace(p[1]) /\ ~IsWhitespace(p[Len(p)])
          /\ ~IsWhitespace(t.text[1])

C6_SelectionAfterDelete ==
    [][(lastCmd' = "DeleteKey" /\ wrote') =>
          /\ SelectionInRange'
          /\ selected' = IF selected = Len(Filtered) - 1 /\ selected > 0
                         THEN selected - 1
                         ELSE selected]_vars

\* a confirmed delete has removed a task and a task is still shown
C6_Witness ==
    /\ lastCmd = "DeleteKey" /\ wrote
    /\ Filtered # <<>>

\* ------------------------------------------------------------ C7
\* needle is a substring of hay when letter case is ignored
C7_InsensitiveSubstring(needle, hay) ==
    \E off \in 0..(Len(hay) - Len(needle)) :
        \A k \in 1..Len(needle) : LowerChar(hay[off + k]) = LowerChar(needle[k])

\* the task satisfies the status filter, the project filter and the search
C7_Passes(t, a) ==
    /\ a.filter = "Active" => ~t.done
    /\ a.filter = "Done" => t.done
    /\ a.project_filter.kind = "NoProject" => t.project = None
    /\ a.project_filter.kind = "Project" => t.project = <<a.project_filter.name>>
    /\ a.search # <<>> =>
          \/ C7_InsensitiveSubstring(a.search, t.text)
          \/ t.project # None /\ C7_InsensitiveSubstring(a.search, t.project[1])

C7_A == Todo(<<"a">>, FALSE, Some(<<"p">>))
C7_B == Todo(<<"a">>, TRUE, Some(<<"p">>))
C7_C == Todo(<<"a">>, FALSE, None)
C7_Example ==
    [todos |-> <<C7_A, C7_B, C7_C>>, filter |-> "Active",
     project_filter |-> PF_Project(<<"p">>), search |-> <<>>]

\* C7: the result holds exactly the (index, task) pairs of the tasks that
\* pass all three filters, in collection order; for A, B, C with Active and
\* Project(x) it is [A].
C7_FilteredView ==
    ret # None =>
        LET r == ret[1]
            ts == arg.todos
        IN /\ \A k \in 1..Len(r) :
                  /\ r[k][1] \in 0..(Len(ts) - 1)
                  /\ r[k][2] = ts[r[k][1] + 1]
                  /\ C7_Passes(r[k][2], arg)
           /\ \A k \in 1..(Len(r) - 1) : r[k][1] < r[k + 1][1]
           /\ \A i \in 1..Len(ts) :
                  C7_Passes(ts[i], arg) => \E k \in 1..Len(r) : r[k][1] = i - 1
           /\ arg = C7_Example => r = <<<<0, C7_A>>>>

\* the example of the claim was filtered
C7_Witness == arg = C7_Example /\ ret = Some(<<<<0, C7_A>>>>)

\* ------------------------------------------------------------ C8
\* t is u without its leading and trailing whitespace
IsTrimOf(t, u) ==
    \E i \in 1..(Len(u) + 1), j \in 0..Len(u) :
        /\ t = SubSeq(u, i, j)
        /\ \A k \in 1..(i - 1) : IsWhitespace(u[k])
        /\ \A k \in (j + 1)..Len(u) : IsWhitespace(u[k])
        /\ t # <<>> => ~IsWhitespace(t[1]) /\ ~IsWhitespace(t[Len(t)])

\* C8: when s has a colon and the parts before and after the first colon
\* are both non-blank, the result is (trimmed part after, trimmed part
\* before); in every other case it is (s, no project).
C8_ProjectSplit ==
    ret # None =>
        LET s == arg
            r == ret[1]
            colons == {i \in 1..Len(s) : s[i] = ":"}
            NoSplit == r[1] = s /\ r[2] = None
        IN IF colons = {} THEN NoSplit
           ELSE LET c == CHOOSE i \in colons : \A k \in colons : i <= k
                    before == SubSeq(s, 1, c - 1)
                    after == SubSeq(s, c + 1, Len(s))
                    blank(u) == \A k \in 1..Len(u) : IsWhitespace(u[k])
                IN IF ~blank(before) /\ ~blank(after)
                   THEN /\ IsTrimOf(r[1], after)
                        /\ r[2] # None /\ IsTrimOf(r[2][1], before)
                   ELSE NoSplit

\* "a: b" was split into text "b" and project "a"
C8_Witness ==
    /\ arg = <<"a", ":", " ", "b">>
    /\ ret = Some(<<<<"b">>, Some(<<"a">>)>>)

\* ------------------------------------------------------------ C9
\* C9: a commit of a buffer with text replaces text and project of the task
\* at the buffer's index by the project-split of the trimmed buffer, or
\* appends one pending task when the index is the collection's length;
\* nothing else changes, the collection is saved, the buffer becomes absent.
C9_CommitEdit ==
    [][(lastCmd' = "SaveEdit" /\ trim(edit_text) # <<>>) =>
          LET idx == editing[1]
              split == parse_todo_text(trim(edit_text))
          IN /\ idx < Len(todos) =>
                    /\ Len(todos') = Len(todos)
                    /\ todos'[idx + 1] =
                           [text |-> split[1], project |-> split[2],
                            done |-> todos[idx + 1].done]
                    /\ \A i \in 1..Len(todos) : i # idx + 1 => todos'[i] = todos[i]
             /\ idx = Len(todos) =>
                    /\ Len(todos') = Len(todos) + 1
                    /\ todos'[idx + 1] =
                           [text |-> split[1], project |-> split[2], done |-> FALSE]
                    /\ \A i \in 1..Len(todos) : todos'[i] = todos[i]
             /\ wrote' /\ file' = Some(FileOf(todos'))
             /\ editing' = None]_vars

\* an edit of an existing, done task was committed
C9_Witness ==
    /\ lastCmd = "SaveEdit" /\ wrote
    /\ \E i \in 1..Len(todos) : todos[i].done /\ todos[i].project # None

\* ------------------------------------------------------------ C10
\* C10: a commit of an empty or all-whitespace buffer changes no task,
\* saves nothing, and leaves the buffer absent and its text empty.
C10_EmptyCommit ==
    [][(lastCmd' = "SaveEdit" /\ trim(edit_text) = <<>>) =>
          /\ todos' = todos
          /\ file' = file /\ ~wrote'
          /\ editing' = None /\ edit_text' = <<>>]_vars

\* a commit that wrote nothing
C10_Witness == lastCmd = "SaveEdit" /\ ~wrote

\* ------------------------------------------------------------ C11
\* C11: toggle flips the done flag of exactly the task whose real index is
\* paired with the selected filtered position and saves; text and project of
\* that task, every other task, length and order stay; when the selection is
\* not a position of the filtered view nothing changes and nothing is saved.
C11_Toggle ==
    [][lastCmd' = "ToggleSelected" =>
          IF selected < Len(Filtered)
          THEN LET r == Filtered[selected + 1][1] IN
               /\ Len(todos') = Len(todos)
               /\ todos'[r + 1] = [text |-> todos[r + 1].text,
                                   project |-> todos[r + 1].project,
                                   done |-> ~todos[r + 1].done]
               /\ \A i \in 1..Len(todos) : i # r + 1 => todos'[i] = todos[i]
               /\ wrote' /\ file' = Some(FileOf(todos'))
          ELSE /\ UNCHANGED appVars
               /\ ~wrote']_vars

\* a done task behind a filter was toggled back to pending and saved
C11_Witness ==
    /\ lastCmd = "ToggleSelected" /\ wrote /\ filter = "Done"
    /\ Len(todos) = 2 /\ ~todos[2].done

C13_Known == {todos[i].project[1] : i \in {j \in 1..Len(todos) : todos[j].project # None}}

\* C13: with the collection fixed and n distinct project names in it, the
\* applications of cycle_project_filter from All set NoProject, then each
\* known project once in ascending order, then All (application n + 2), and
\* go on in the same round; every application sets the selection to 0.
C13_CycleProject ==
    LET n == Cardinality(C13_Known) IN
    /\ Len(arg) >= 1 => arg[1] = PF_NoProject
    /\ \A k \in 2..Min(Len(arg), n + 1) :
           /\ arg[k].kind = "Project" /\ arg[k].name \in C13_Known
           /\ k > 2 => StrLess(arg[k - 1].name, arg[k].name)
    /\ Len(arg) >= n + 2 => arg[n + 2] = PF_All
    /\ \A k \in (n + 3)..Len(arg) : arg[k] = arg[k - (n + 2)]
    /\ (lastCmd = "CycleProject") => selected = 0

\* with projects "P", "a", "ab" the round of five is over
C13_Witness ==
    /\ C13_Known = {<<"P">>, <<"a">>, <<"a", "b">>}
    /\ Len(arg) = 5 /\ arg[2] = PF_Project(<<"P">>) /\ arg[5] = PF_All

\* ------------------------------------------------------------ C14
\* C14: cycle_status_filter maps All to Active, Active to Done and Done to
\* All, so three applications restore the filter; it sets the selection to 0
\* and changes neither the collection, the project filter nor the search.
C14_CycleFilter ==
    [][lastCmd' = "CycleFilter" =>
          /\ filter = "All" => filter' = "Active"
          /\ filter = "Active" => filter' = "Done"
          /\ filter = "Done" => filter' = "All"
          /\ next(next(next(filter))) = filter
          /\ selected' = 0
          /\ UNCHANGED <<todos, project_filter, search>>]_vars

\* the filter came back to All from Done, with a project filter set
C14_Witness ==
    /\ lastCmd = "CycleFilter" /\ filter = "All"
    /\ project_filter # PF_All /\ Len(todos) = 2

\* ------------------------------------------------------------ C15
\* the tasks of a line that starts with a marker itself: the project-split
\* of the rest of the line
C15_LineAsStated(l) ==
    IF Len(l) >= 4 /\ SubSeq(l, 1, 4) \in {<<"[", " ", "]", " ">>, <<"[", "x", "]", " ">>}
    THEN LET r == parse_todo_text(SubSeq(l, 5, Len(l)))
         IN <<[text |-> r[1], done |-> l[2] = "x", project |-> r[2]]>>
    ELSE <<>>

\* the tasks of a line in which only whitespace stands before the marker
\* and something other than whitespace after it: the project-split of the
\* rest of the line without its trailing whitespace
C15_Line(l) ==
    IF \E k \in 0..Len(l) :
          /\ \A i \in 1..k : IsWhitespace(l[i])
          /\ Len(l) >= k + 5
          /\ SubSeq(l, k + 1, k + 4) \in {<<"[", " ", "]", " ">>, <<"[", "x", "]", " ">>}
          /\ \E i \in (k + 5)..Len(l) : ~IsWhitespace(l[i])
    THEN LET k == CHOOSE k \in 0..Len(l) :
                      /\ \A i \in 1..k : IsWhitespace(l[i])
                      /\ k < Len(l) /\ ~IsWhitespace(l[k + 1])
             last == CHOOSE j \in 1..Len(l) :
                      /\ ~IsWhitespace(l[j])
                      /\ \A i \in (j + 1)..Len(l) : IsWhitespace(l[i])
             r == parse_todo_text(SubSeq(l, k + 5, last))
         IN <<[text |-> r[1], done |-> l[k + 2] = "x", project |-> r[2]]>>
    ELSE <<>>

RECURSIVE C15_Tasks(_, _)
\* the tasks of the lines in file order; stated chooses the reading of a line
C15_Tasks(ls, stated) ==
    IF ls = <<>> THEN <<>>
    ELSE (IF stated THEN C15_LineAsStated(Head(ls)) ELSE C15_Line(Head(ls)))
             \o C15_Tasks(Tail(ls), stated)

\* C15 (as stated): load gives, in file order, one task for each line that
\* itself starts with "[ ] " or "[x] ", and nothing for any other line.
C15_LoadAsStated ==
    ret # None => ret[1] = C15_Tasks(lines(arg), TRUE)

\* C15 (amended): load gives, in file order, one task for each line that
\* has only whitespace before "[ ] " or "[x] " and something other than
\* whitespace after it, and nothing for any other line.
C15_Load ==
    ret # None => ret[1] = C15_Tasks(lines(arg), FALSE)

\* a file of an indented done line with a project and of a line that is no
\* task was loaded
C15_Witness ==
    /\ ret # None /\ Len(lines(arg)) = 2
    /\ lines(arg)[1] = <<"\t", "[", "x", "]", " ", "p", ":", " ", "a">>
    /\ lines(arg)[2] = <<"x", "[", " ", "]", " ", "a">>
    /\ ret[1] = <<[text |-> <<"a">>, done |-> TRUE, project |-> <<<<"p">>>>]>>

\* ------------------------------------------------------------ C16
\* the command line is a misuse: add without its argument, or a subcommand
\* that is neither add nor help
C16_Misuse ==
    \/ arg = <<<<"a", "d", "d">>>>
    \/ Len(arg) >= 1 /\ arg[1] \notin {<<"a", "d", "d">>, <<"h", "e", "l", "p">>,
                                        <<"-", "-", "h", "e", "l", "p">>, <<"-", "h">>}

\* the process reported an error: non-zero exit status or output on stderr
C16_Surfaced == ret # None /\ (ret[1].code # 0 \/ ret[1].stderr)

C17_CliAdd ==
    [][(lastCmd' = "add" /\ wrote') =>
          load_todos(<<>>, file') =
              load_todos(<<>>, file)
                  \o <<[text |-> parse_todo_text(arg[2])[1], done |-> FALSE,
                        project |-> parse_todo_text(arg[2])[2]]>>]_vars

\* ------------------------------------------------------------ C18
\* C18 (as stated): for every content of the config files and every import
\* graph, load_theme does not fail: it neither overflows the stack nor
\* panics.
C18_NeverFails == theme_call.status \in {"idle", "running", "done"}

\* ------------------------------------------------------------ C19
RECURSIVE C19_Layers(_), C19_ImportLayers(_)
\* the settings applied for the file at path p, in the order of
\* application: those of its imports in list order, then its own
C19_Layers(p) ==
    IF config_files[p].kind # "config" THEN <<>>
    ELSE C19_ImportLayers(config_files[p].import) \o <<config_files[p].settings>>
C19_ImportLayers(l) ==
    IF l = <<>> THEN <<>> ELSE C19_Layers(Head(l)) \o C19_ImportLayers(Tail(l))

\* the colour of an entry that is present and valid
C19_Valid(entry) ==
    IF entry # None /\ parse_hex_color(entry[1]).kind = "Ok"
    THEN Some(parse_hex_color(entry[1]).color)
    ELSE None

\* the value a layer supplies for a theme field, None when it supplies
\* none; the done colour is supplied by the cyan entry of a layer that has
\* one and else by its black entry
C19_Supplied(st, field) ==
    LET opt(v) == IF v = None THEN None ELSE Some(v) IN
    CASE field = "background" -> C19_Valid(st.background)
      [] field = "foreground" -> C19_Valid(st.foreground)
      [] field = "accent" -> C19_Valid(st.blue)
      [] field = "border" -> C19_Valid(st.white)
      [] field = "done_color" ->
            IF st.cyan # None THEN C19_Valid(st.cyan) ELSE C19_Valid(st.black)
      [] field = "red" -> opt(C19_Valid(st.red))
      [] field = "green" -> opt(C19_Valid(st.green))
      [] field = "yellow" -> opt(C19_Valid(st.yellow))
      [] field = "blue" -> opt(C19_Valid(st.blue))
      [] field = "magenta" -> opt(C19_Valid(st.magenta))
      [] field = "cyan" -> opt(C19_Valid(st.cyan))
      [] field = "white" -> opt(C19_Valid(st.white))
      [] field = "font_family" -> opt(st.family)
      [] field = "font_size" -> opt(st.size)

\* the value of the last layer that supplies one, else the default
C19_Resolved(layers, field) ==
    LET suppliers == {i \in 1..Len(layers) : C19_Supplied(layers[i], field) # None}
    IN IF suppliers = {} THEN Theme_default[field]
       ELSE LET last == CHOOSE i \in suppliers : \A j \in suppliers : j <= i
            IN C19_Supplied(layers[last], field)[1]

C20_Fallback ==
    (theme_call.status = "done"
        /\ config_files[RootPath].kind \in {"absent", "unreadable", "malformed"})
    => theme = Theme_default

\* the resolution is over for a root file that holds a palette and fails to
\* parse
C20_Witness ==
    /\ theme_call.status = "done" /\ lastCmd = "new"
    /\ config_files[RootPath] = ConfigFile("malformed", <<>>, Palette)

\* ------------------------------------------------------------ C21
\* C21 (as stated): when a periodic re-resolution is over, every theme
\* field is what the resolution from the built-in defaults gives for the
\* config files as they are then, whatever the files were before: an
\* edited file shows its values, a file made invalid or removed gives the
\* defaults.
C21_ReResolution ==
    (theme_call.status = "done" /\ lastCmd = "load_theme") =>
        \A field \in DOMAIN Theme_default :
            theme[field] = C19_Resolved(C19_Layers(RootPath), field)

\* ------------------------------------------------------------ C22
\* the colour string after one optional leading "#" is removed
C22_Body(hex) == IF hex # <<>> /\ Head(hex) = "#" THEN Tail(hex) ELSE hex

\* exactly six hexadecimal digits
C22_SixDigits(body) ==
    Len(body) = 6 /\ \A i \in 1..6 : body[i] \in HexDigits

\* the three bytes six hexadecimal digits denote
C22_Bytes(body) ==
    <<16 * to_digit(body[1]) + to_digit(body[2]),
      16 * to_digit(body[3]) + to_digit(body[4]),
      16 * to_digit(body[5]) + to_digit(body[6])>>

\* C22 (as stated): once a colour string was handled, it was accepted if
\* and only if it is six hexadecimal digits after one optional leading "#",
\* the accepted colour is the three bytes the digits denote, every other
\* string was rejected and left the theme field at its previous value.
C22_Parsing ==
    lastCmd # "new" =>
        IF C22_SixDigits(C22_Body(arg))
        THEN /\ ret = Some(ColorOk(C22_Bytes(C22_Body(arg))))
             /\ theme.background = C22_Bytes(C22_Body(arg))
        ELSE /\ ret = Some(ColorErr)
             /\ theme = Theme_default

\* ------------------------------------------------------------ C23
\* the file supplies a valid colour for the entry
C23_Valid(entry) == entry # None /\ parse_hex_color(entry[1]).kind = "Ok"

\* C23 (as stated): every step that applies a file's settings leaves the
\* done colour at the file's cyan entry if that is a valid colour,
\* otherwise at the file's black entry if that is a valid colour, and
\* otherwise at its previous value.
C23_DoneColour ==
    [][(LoadThemeApply /\ theme_call'.status # "panic") =>
          LET st == TopConfig[1].settings IN
          theme'.done_color =
              IF C23_Valid(st.cyan) THEN parse_hex_color(st.cyan[1]).color
              ELSE IF C23_Valid(st.black) THEN parse_hex_color(st.black[1]).color
              ELSE theme.done_color]_vars

\* ------------------------------------------------------------ C24
\* x * m modulo 2^32, for a factor m below 2^15
C24_Times(x, m) ==
    LET lo == x.lo * m
        hi == x.hi * m + (lo \div Half)
    IN U32(hi % Half, lo % Half)

\* x + y modulo 2^32
C24_Plus(x, y) ==
    LET lo == x.lo + y.lo
        hi == x.hi + y.hi + (lo \div Half)
    IN U32(hi % Half, lo % Half)

RECURSIVE C24_Power31(_)
\* 31^k modulo 2^32
C24_Power31(k) == IF k = 0 THEN U32(0, 1) ELSE C24_Times(C24_Power31(k - 1), 31)

RECURSIVE C24_Polynomial(_)
\* b1 * 31^(k-1) + b2 * 31^(k-2) + .. + bk modulo 2^32, term by term
C24_Polynomial(bytes) ==
    IF bytes = <<>> THEN U32(0, 0)
    ELSE C24_Plus(C24_Times(C24_Power31(Len(bytes) - 1), ByteValue(Head(bytes))),
                  C24_Polynomial(Tail(bytes)))

\* h mod n for h = hi * 2^16 + lo, by long division in base 2^16
C24_Mod(h, n) == (((h.hi % n) * Half) + h.lo) % n

\* C24: the colour of a project is the entry at index (h mod n) of the
\* list of available colours of the theme, h the base-31 polynomial of the
\* bytes of the name modulo 2^32 and n the length of the list, which is at
\* least 1; it depends on the name and the theme only.
C24_ProjectColour ==
    ret # None =>
        LET colors == project_colors(theme)
            n == Len(colors)
        IN /\ n >= 1
           /\ ret[1] = colors[C24_Mod(C24_Polynomial(as_bytes(arg)), n) + 1]
           /\ ret[1] = get_project_color(theme, arg)

\* a colour was chosen for a name whose polynomial exceeds 2^32 (seven
\* bytes of value 97 or more), from a list shortened by the accent and
\* done-colour rules
C24_Witness ==
    /\ ret # None
    /\ Len(as_bytes(arg)) >= 7
    /\ Len(project_colors(theme)) = 5

\* ------------------------------------------------------------ C25
\* the edit buffer holds a character that is no whitespace
C25_NonEmpty(buffer) == \E i \in 1..Len(buffer) : ~IsWhitespace(buffer[i])

\* C25: a step changes the task collection or the backing file, or writes
\* the file, only if it is a commit of a non-empty buffer, a toggle with a
\* valid selection, or a delete issued while armed with a valid selection;
\* every other command leaves the collection and the file alone and
\* writes nothing.
C25_FrameCondition ==
    [][(todos' # todos \/ file' # file \/ wrote') =>
          \/ lastCmd' = "SaveEdit" /\ C25_NonEmpty(edit_text)
          \/ lastCmd' = "ToggleSelected" /\ selected < Len(Filtered)
          \/ lastCmd' = "DeleteKey" /\ delete_mode /\ selected < Len(Filtered)]_vars

\* after a write, a buffer of blanks was committed and nothing was written
C25_Witness ==
    /\ lastCmd = "SaveEdit"
    /\ ~wrote
    /\ saved
    /\ todos # <<>>

\* ------------------------------------------------------------ C26
\* the same task, whatever its done flag (the tasks of the collection
\* differ in their texts)
C26_SameTask(a, b) == a.text = b.text /\ a.project = b.project

\* C26 (as stated): whenever a commit overwrites an existing task, that
\* task is the one that was at the selected position when EditSelected was
\* applied, also when several key events arrive in one frame.
C26_EditTarget ==
    [][(DispatchSaveEdit /\ IsSome(editing) /\ has_text(edit_text)
            /\ Unwrap(editing) < Len(todos)) =>
          /\ IsSome(ret)
          /\ C26_SameTask(Unwrap(ret), todos[Unwrap(editing) + 1])]_vars

\* ------------------------------------------------------------ C27
\* C27 (as stated): a commit that directly follows AddNew, the buffer as
\* AddNew left it, changes neither the collection nor the file, whatever
\* the project filter.
C27_AddNewCommit ==
    [][(lastCmd = "AddNew" /\ SaveEdit) => (todos' = todos /\ file' = file)]_vars

\* ------------------------------------------------------------ C28
\* C28 (as stated): a commit that directly follows EditSelected, the buffer
\* as EditSelected filled it, leaves the collection as it was, for every
\* task a task file can give.
C28_AsStated ==
    [][(lastCmd = "EditSelected" /\ SaveEdit) => todos' = todos]_vars

\* the text of the task begins with whitespace
C28_LeadingBlank(todo) == todo.text # <<>> /\ IsWhitespace(Head(todo.text))

\* C28 (amended): a commit that directly follows EditSelected, the buffer
\* as EditSelected filled it, leaves the collection as it was when the text
\* of the edited task does not begin with whitespace.
C28_EditCommit ==
    [][(lastCmd = "EditSelected" /\ SaveEdit
            /\ ~C28_LeadingBlank(todos[Unwrap(editing) + 1])) =>
          todos' = todos]_vars

\* an untouched buffer was committed for a collection with a project and
\* without a text that begins with whitespace
C28_Witness ==
    /\ lastCmd = "SaveEdit" /\ wrote
    /\ \A i \in 1..Len(todos) : ~C28_LeadingBlank(todos[i])
    /\ \E i \in 1..Len(todos) : todos[i].project # None

\* ------------------------------------------------------------ C29
\* C29 (as stated): whenever the project filter is Project(p), some task of
\* the collection has the project p.
C29_FilterValid ==
    project_filter.kind = "Project" =>
        \E i \in 1..Len(todos) : todos[i].project = Some(project_filter.name)

\* ------------------------------------------------------------ C30
\* a task with the text and the project of t is in the collection ts
C30_Present(t, ts) ==
    \E i \in 1..Len(ts) : ts[i].text = t.text /\ ts[i].project = t.project

\* C30 (as stated): after a save of the interactive instance the task file
\* still holds every task the add form has written since the instance
\* loaded the file.
C30_NoLostUpdate ==
    (lastCmd = "ToggleSelected" /\ wrote) =>
        \A i \in 1..Len(arg) : C30_Present(arg[i], load_todos(<<>>, file))

\* C30 (amended): a task the add form has written is in the file right
\* after the write; after a save of the interactive instance the file is
\* the instance's own collection and holds none of the tasks the add form
\* has written since the instance loaded.
C30_LastWriterWins ==
    /\ (lastCmd = "add" /\ wrote) =>
           C30_Present(arg[Len(arg)], load_todos(<<>>, file))
    /\ (lastCmd = "ToggleSelected" /\ wrote) =>
           /\ file = save_todos(todos)
           /\ \A i \in 1..Len(arg) : ~C30_Present(arg[i], load_todos(<<>>, file))

\* the interactive instance has saved after the add form wrote two tasks
C30_Witness ==
    /\ lastCmd = "ToggleSelected" /\ wrote
    /\ Len(arg) = 2

====
